---- MODULE Spec2Model ----
(***************************************************************************)
(* A model of stonkers: the broker API facade (retry wrapper, TTL caches,  *)
(* order placement and cancellation), the wheelie orchestrator's order     *)
(* confirmation flow and the Wheel decision engine.                        *)
(*                                                                         *)
(* Each component has its own group of variables and its own               *)
(* specification; a specification leaves the other groups unchanged.       *)
(* Times are in tenths of a second where the retry waits are concerned     *)
(* (0.2 s = 2) and in whole TTL units for the caches.                      *)
(***************************************************************************)
EXTENDS Integers, Sequences, FiniteSets, TLC

VARIABLES
    \* ---- retry wrapper (Client._get) ----
    callKind,      \* the broker endpoint of the call in progress, or "none"
    getPc,         \* "idle", "sending", "waiting", "returned", "raised"
    attempt,       \* the number of attempts made by this call
    lastStatus,    \* the status of the latest response (-1 before the first)
    lastHeader,    \* the retry-after header of the latest response
    lastWait,      \* the wait computed after the latest attempt (-1: none)
    error,         \* what the call raised: "none", "HTTPError", "TransportError", "TypeError"
    waitFirst,     \* the retry library computes the wait before the stop check
    \* ---- clock ----
    now,           \* the clock of the TTL caches
    \* ---- orders cache, order placement and cancellation ----
    brokerOrders,  \* the broker's order list, as the number of mutations applied to it
    ordersCache,   \* Client._cache.orders[account_id]: present, value, expires
    rPc,           \* each orders() reader: "idle", "get_account", "principals", "done", "failed"
    rSnap,         \* the order list the reader's account fetch returned
    rFloor,        \* the broker's order list when the last mutating call returned before this read began
    rResult,       \* what the read returned
    mKind,         \* the mutating call: "none", "place", "cancel"
    mPc,           \* "idle", "running", "returned", "failed"
    orders,        \* the orders (or order ids) the mutating call was given
    tasks,         \* per order: "new", "inflight", "ok", "raised"
    payload,       \* per order: what was handed to the broker request
    returnedVer,   \* the broker's order list when the last mutating call returned
    \* ---- quote cache ----
    brokerQuote,   \* the broker's current quote (one number for every symbol)
    quotesCache,   \* Client._cache.quotes: per symbol present, value, expires
    qPc,           \* each quote() caller: "idle", "fetching", "done", "failed"
    qAsked,        \* the symbols the caller asked for
    qRequested,    \* the symbols named in the caller's broker request
    qRequests,     \* the number of broker quote requests the call has made
    qResult,       \* the quotes returned, per symbol (-1: none)
    qReturned,     \* the symbols the broker answered
    qSeen,         \* the quote cache as it was when the call began
    qAt,           \* the time the call began
    qDoneAt,       \* the time the call returned
    \* ---- wheelie orchestrator: confirmation and submission ----
    wPc,           \* "evaluating", "queuing", "sending", "returned", "done", "failed"
    autoSend,      \* auto_send_orders
    options,       \* the recommended Options collected from the Wheels
    answers,       \* the user's answer to each "Send order?" prompt so far
    queue,         \* orders: the orders queued for submission
    sendTasks,     \* per queued order: "new", "inflight", "ok", "raised"
    placed,        \* per order, the number of place requests made for it
    \* ---- one Wheel ----
    wheel,         \* the facts the Wheel reads: positions, buying power, prices, orders, chain
    runPc,         \* Wheel.__call__: "new", "writing", "done"
    callPc,        \* write_calls: 0 (not started), the number of the gate to evaluate next, or -1 (over)
    putPc,         \* write_puts: likewise
    callGates,     \* the gates write_calls has evaluated, in order
    putGates,      \* the gates write_puts has evaluated, in order
    display,       \* Wheel._display: the status lines
    wheelOptions,  \* Wheel.options: the recorded Options
    \* ---- WheelConfig and the start of the wheelie command ----
    parseInput,    \* the ticker string WheelConfig.parse was given
    parseResult,   \* what it returned or raised
    tPc,           \* the wheelie run: "idle", "called", "tickers", "account", "failed"
    fromCli,       \* the run was started by the `options wheelie` command
    supplied,      \* the ticker strings supplied on the command line
    wArgs,         \* the tickers argument the orchestrator was given
    tickerSet,     \* set(tickers), in insertion order
    tickerDict,    \* _tickers
    tError,        \* what the run raised, or "none"
    brokerCalls,   \* the number of broker calls the run has made
    \* ---- the commands of the CLI ----
    trend,         \* the answer of the trends service to ThetaGang.trending
    exclude,       \* the --exclude option
    defaults,      \* what Stonkers.default_tickers returned or raised
    cmd,           \* the command run: "none", "rebalance", "expiring", "puts"
    cmdPc,         \* "idle", "chains", "done", "failed"
    cmdError,      \* what the command raised, or "none"
    rbIn,          \* account rebalance: positions, funds, prices, the optimizer's solution
    rbOut,         \* account rebalance: the shares to buy
    exIn,          \* options expiring: positions and the --dte option
    exOut,         \* options expiring: what was printed
    pfParams,      \* put_finder: dte_min, dte_max, pop_min, pop_max, return_min
    pfTickers,     \* options puts: the tickers given to put_finder
    pfChains,      \* put_finder: chains, the tables collected so far
    pfFetched,     \* put_finder: the number of chains fetched from the broker
    pfTable,       \* put_finder: the table returned
    \* ---- options cache ----
    optionsCache,  \* Client._cache.options: per key present, value, expires
    opPc,          \* each options() caller: "idle", "fetching", "done", "failed"
    opSymbol,      \* the symbol the caller asked for
    opArgs,        \* the chain arguments (**kwargs) the caller passed
    opRequests,    \* the number of broker option-chain requests the call has made
    opResult,      \* the payload returned, named by the chain arguments it was fetched with (0: none)
    opSeen,        \* the options cache as it was when the call began
    opAt,          \* the time the call began
    \* ---- a wheelie run: account summary, positions and the Wheels ----
    rnPc,          \* "idle", "account", "positions", "prefetch", "wheels", "returned", "failed"
    rnConfigs,     \* the tickers argument: a list of WheelConfig values
    rnTickers,     \* _tickers
    chainOf,       \* per symbol, whether the broker's option chain is "empty" or has "some" contracts
    account,       \* AccountSummary._account: "unfetched" or "fetched"
    acctRead,      \* the latest read of an AccountSummary field: the field, whether fetched, the outcome
    positionsLoaded, \* Positions.__call__ has returned
    whPc,          \* each Wheel: "none", "new", "preload", "done", "failed"
    whSaw,         \* what the Wheel found when it started: account fetched, positions loaded
    whLines,       \* the number of lines on the Wheel's display
    whDone,        \* the number of times the Wheel called its done callback
    whError,       \* what the Wheel raised, or "none"
    rnRows,        \* the number of rows of the status table
    \* ---- the memoized facts of the Tickers and Wheels of a run ----
    tkPc,          \* the run: "idle", "wheels", "returned"
    mConfigs,      \* the tickers argument: a list of WheelConfig values
    mTickers,      \* _tickers
    mWheel,        \* each Wheel: "none", "new", "writing", "done"
    mSeq,          \* each Wheel's write sequences: puts and calls, "start" or "over"
    memo,          \* per memoized property, the one entry of its cache: key (a ticker symbol) and value
    computed,      \* per symbol and property, the values computed by the calls of the property's body
    mOptions,      \* per Wheel, the Options recorded
    mAdvances,     \* the number of calls of the done callback
    mRows          \* the number of rows of the status table

retryVars == <<callKind, getPc, attempt, lastStatus, lastHeader, lastWait, error, waitFirst>>

clockVars == <<now>>

orderVars ==
    <<brokerOrders, ordersCache, rPc, rSnap, rFloor, rResult, mKind, mPc,
      orders, tasks, payload, returnedVer>>

quoteVars ==
    <<brokerQuote, quotesCache, qPc, qAsked, qRequested, qRequests, qResult,
      qReturned, qSeen, qAt, qDoneAt>>

wheelieVars == <<wPc, autoSend, options, answers, queue, sendTasks, placed>>

wheelVars ==
    <<wheel, runPc, callPc, putPc, callGates, putGates, display, wheelOptions>>

configVars ==
    <<parseInput, parseResult, tPc, fromCli, supplied, wArgs,
      tickerSet, tickerDict, tError, brokerCalls>>

trendVars == <<trend, exclude, defaults>>

commandVars ==
    <<cmd, cmdPc, cmdError, rbIn, rbOut, exIn, exOut, pfParams, pfTickers,
      pfChains, pfFetched, pfTable>>

cliVars == <<trendVars, commandVars>>

optionsVars ==
    <<optionsCache, opPc, opSymbol, opArgs, opRequests, opResult, opSeen, opAt>>

runVars ==
    <<rnPc, rnConfigs, rnTickers, chainOf, account, acctRead, positionsLoaded,
      whPc, whSaw, whLines, whDone, whError, rnRows>>

memoVars ==
    <<tkPc, mConfigs, mTickers, mWheel, mSeq, memo, computed, mOptions,
      mAdvances, mRows>>

vars ==
    <<retryVars, clockVars, orderVars, quoteVars, wheelieVars, wheelVars,
      configVars, cliVars,
      optionsVars,
      runVars,
      memoVars>>

\* What the actions of each component leave alone.
notRetry ==
    <<clockVars, orderVars, quoteVars, wheelieVars, wheelVars, configVars, cliVars,
      optionsVars,
      runVars,
      memoVars>>

notClock ==
    <<retryVars, orderVars, quoteVars, wheelieVars, wheelVars, configVars, cliVars,
      optionsVars,
      runVars,
      memoVars>>

notOrders ==
    <<retryVars, clockVars, quoteVars, wheelieVars, wheelVars, configVars, cliVars,
      optionsVars,
      runVars,
      memoVars>>

notQuote ==
    <<retryVars, clockVars, orderVars, wheelieVars, wheelVars, configVars, cliVars,
      optionsVars,
      runVars,
      memoVars>>

notWheelie ==
    <<retryVars, clockVars, orderVars, quoteVars, wheelVars, configVars, cliVars,
      optionsVars,
      runVars,
      memoVars>>

notWheel ==
    <<retryVars, clockVars, orderVars, quoteVars, wheelieVars, configVars, cliVars,
      optionsVars,
      runVars,
      memoVars>>

notConfig ==
    <<retryVars, clockVars, orderVars, quoteVars, wheelieVars, wheelVars,
      cliVars,
      optionsVars,
      runVars,
      memoVars>>

notCli ==
    <<retryVars, clockVars, orderVars, quoteVars, wheelieVars, wheelVars,
      configVars,
      optionsVars,
      runVars,
      memoVars>>

notOptions ==
    <<retryVars, clockVars, orderVars, quoteVars, wheelieVars, wheelVars,
      configVars, cliVars,
      runVars,
      memoVars>>

notRun ==
    <<retryVars, clockVars, orderVars, quoteVars, wheelieVars, wheelVars, configVars, cliVars, optionsVars,
      memoVars>>

notMemo ==
    <<retryVars, clockVars, orderVars, quoteVars, wheelieVars, wheelVars, configVars, cliVars, optionsVars, runVars>>

\* What a command that starts a wheelie run leaves alone.
notConfigNorCli ==
    <<retryVars, clockVars, orderVars, quoteVars, wheelieVars, wheelVars,
      optionsVars,
      runVars,
      memoVars>>

\* ------------------------------------------------------------------ bounds

\* The largest integer retry-after value (seconds) the broker sends.
MaxRetryAfter == 2

\* The number of times the broker's quote changes.
MaxQuote == 1

\* The largest number of Options the Wheels of one run recommend.
MaxOptions == 3

\* The largest number of orders (or order ids) in one mutating call.
MaxOrders == 2

\* The largest number of key=value options in one ticker string.
MaxKeys == 2

\* The largest number of tickers given to one command.
MaxTickers == 2

\* The largest amount of funds given to account rebalance.
MaxFunds == 4

\* The largest number of shares of one symbol in the optimizer's solution.
MaxBuy == 2

\* The clock runs from 0 to MaxTime, in steps of TickSize.
MaxTime == 15

TickSize == 5

\* ------------------------------------------------------- program constants

\* cachetools.TTLCache(maxsize=1000, ttl=10)
TTL == 10

\* stop=tenacity.stop_after_attempt(5)
MaxAttempts == 5

\* the status RetryHTTPTooManyRequests retries on
TooManyRequests == 429

\* the lot of shares one option contract covers
Lot == 100

\* wait_exponential(multiplier=0.2), in tenths of a second
Multiplier == 2

\* ------------------------------------------------------------ pure helpers

Max(a, b) == IF a >= b THEN a ELSE b

Min(a, b) == IF a <= b THEN a ELSE b

RECURSIVE Pow2(_)
Pow2(n) == IF n <= 0 THEN 1 ELSE 2 * Pow2(n - 1)

\* ===================================================================
\* Retry wrapper
\* ===================================================================

\* The broker endpoints the facade calls.
RequestKinds ==
    {"get_account", "get_accounts", "get_hours_for_multiple_markets",
     "get_option_chain", "get_quotes", "get_user_principals",
     "get_price_history_every_day", "cancel_order", "place_order"}

\* Whether the facade routes the endpoint through Client._get.  The
\* all-accounts fetch of _get_accounts awaits get_func directly.
Wrapped(kind) == kind # "get_accounts"

\* Response statuses: success, rate limited, another error status, and 0
\* for a transport failure (an exception that carries no response).
Statuses == {200, TooManyRequests, 500, 0}

\* The forms of the retry-after header.  n is the integer of a digit
\* string (seconds), or the offset of an HTTP date from now (seconds).
\* An HTTP date with a zone ("... GMT") parses to an aware datetime, one
\* without ("... -0000" or no zone) to a naive one.
RetryAfterHeaders ==
    {[kind |-> "absent", n |-> 0]} \cup
    {[kind |-> "digits", n |-> n] : n \in 0..MaxRetryAfter} \cup
    {[kind |-> "date_aware", n |-> n] : n \in {-1, 1}} \cup
    {[kind |-> "date_naive", n |-> n] : n \in {-1, 1}} \cup
    {[kind |-> "garbage", n |-> 0]}

\* WaitRetryAfter.__call__ on a failed attempt whose exception carries a
\* response: the delay in tenths of a second, or raised = TRUE when the
\* computation itself raises.  Subtracting the naive utcnow() from an
\* aware datetime raises TypeError outside the try block.
WaitRetryAfter(h, hasResponse) ==
    IF ~hasResponse THEN [raised |-> FALSE, value |-> 0]
    ELSE CASE h.kind = "absent" -> [raised |-> FALSE, value |-> 0]
           [] h.kind = "digits" -> [raised |-> FALSE, value |-> 10 * h.n]
           [] h.kind = "garbage" -> [raised |-> FALSE, value |-> 0]
           [] h.kind = "date_naive" -> [raised |-> FALSE, value |-> Max(0, 10 * h.n)]
           [] h.kind = "date_aware" -> [raised |-> TRUE, value |-> 0]

\* tenacity.wait_exponential(multiplier=0.2) after attempt number k.
WaitExponential(k) == Multiplier * Pow2(k - 1)

\* tenacity.wait_combine(WaitRetryAfter(), wait_exponential(...)): the sum
\* of the two strategies.
WaitCombine(h, hasResponse, k) ==
    LET ra == WaitRetryAfter(h, hasResponse)
    IN  [raised |-> ra.raised, value |-> ra.value + WaitExponential(k)]

\* RetryHTTPTooManyRequests.__call__: retry only an exception that carries
\* a response with status 429.
RetryHTTPTooManyRequests(status) == status = TooManyRequests

\* tenacity.stop_after_attempt(5)
StopAfterAttempt(k) == k >= MaxAttempts

NoHeader == [kind |-> "absent", n |-> 0]

InitRetry ==
    /\ callKind = "none"
    /\ getPc = "idle"
    /\ attempt = 0
    /\ lastStatus = -1
    /\ lastHeader = NoHeader
    /\ lastWait = -1
    /\ error = "none"
    /\ waitFirst = FALSE

\* A facade method awaits a broker endpoint.
Call(kind) ==
    /\ getPc = "idle"
    /\ callKind' = kind
    /\ getPc' = "sending"
    /\ attempt' = 0
    /\ lastStatus' = -1
    /\ lastHeader' = NoHeader
    /\ lastWait' = -1
    /\ error' = "none"
    /\ waitFirst' \in BOOLEAN
    /\ UNCHANGED notRetry

\* get_func awaited directly: whatever response comes back is used; no
\* raise_for_status, no retry.  A transport failure still raises.
DirectResponse(status, h) ==
    /\ getPc = "sending"
    /\ ~Wrapped(callKind)
    /\ attempt' = attempt + 1
    /\ lastStatus' = status
    /\ lastHeader' = h
    /\ IF status = 0
       THEN getPc' = "raised" /\ error' = "TransportError"
       ELSE getPc' = "returned" /\ error' = "none"
    /\ UNCHANGED <<callKind, lastWait, waitFirst>>
    /\ UNCHANGED notRetry

\* One attempt of Client._get and the retry decision that follows it:
\* raise_for_status, the retry predicate, the stop check and the wait.
Attempt(status, h) ==
    /\ getPc = "sending"
    /\ Wrapped(callKind)
    /\ attempt' = attempt + 1
    /\ lastStatus' = status
    /\ lastHeader' = h
    /\ LET k == attempt + 1
           w == WaitCombine(h, status # 0, k)
       IN  IF status = 200
           THEN getPc' = "returned" /\ error' = "none" /\ lastWait' = -1
           ELSE IF ~RetryHTTPTooManyRequests(status)
           THEN /\ getPc' = "raised"
                /\ error' = (IF status = 0 THEN "TransportError" ELSE "HTTPError")
                /\ lastWait' = -1
           ELSE IF waitFirst /\ w.raised
           THEN getPc' = "raised" /\ error' = "TypeError" /\ lastWait' = -1
           ELSE IF StopAfterAttempt(k)
           THEN getPc' = "raised" /\ error' = "HTTPError" /\ lastWait' = -1
           ELSE IF w.raised
           THEN getPc' = "raised" /\ error' = "TypeError" /\ lastWait' = -1
           ELSE getPc' = "waiting" /\ error' = "none" /\ lastWait' = w.value
    /\ UNCHANGED <<callKind, waitFirst>>
    /\ UNCHANGED notRetry

\* The sleep before the next attempt ends.
Sleep ==
    /\ getPc = "waiting"
    /\ getPc' = "sending"
    /\ UNCHANGED <<callKind, attempt, lastStatus, lastHeader, lastWait, error, waitFirst>>
    /\ UNCHANGED notRetry

\* The call is over; the facade is ready for the next one.
Finish ==
    /\ getPc \in {"returned", "raised"}
    /\ getPc' = "idle"
    /\ callKind' = "none"
    /\ attempt' = 0
    /\ lastStatus' = -1
    /\ lastHeader' = NoHeader
    /\ lastWait' = -1
    /\ error' = "none"
    /\ waitFirst' = FALSE
    /\ UNCHANGED notRetry

NextRetry ==
    \/ \E kind \in RequestKinds : Call(kind)
    \/ \E status \in Statuses, h \in RetryAfterHeaders : DirectResponse(status, h)
    \/ \E status \in Statuses, h \in RetryAfterHeaders : Attempt(status, h)
    \/ Sleep
    \/ Finish

\* ===================================================================
\* Orders cache, place_order and cancel_order (one account)
\* ===================================================================

\* The concurrent callers of Client.orders.
Readers == {"r1", "r2"}

\* The outcome of one Client._get call: the response, or an exception.
GetOutcomes == {"ok", "raise"}

NoEntry == [present |-> FALSE, value |-> 0, expires |-> 0]

\* TTLCache.__contains__: an entry counts until its expiry time.
InCache(entry) == entry.present /\ now < entry.expires

\* TTLCache.__setitem__
CacheEntry(value) == [present |-> TRUE, value |-> value, expires |-> now + TTL]

\* "if account_id in self._cache.orders: del self._cache.orders[account_id]"
Evict(entry) == IF InCache(entry) THEN NoEntry ELSE entry

\* An order as handed to place_order: an OrderBuilder or its wire form.
OrderInputs == {"builder", "dict"}

\* OrderBuilder.build(): the wire form of an order.
Build(o) == IF o = "builder" THEN "dict" ELSE o

\* A cancel_order that started every cancellation at once.
InitialTasksAllAtOnce(kind, n) == [i \in 1..n |-> "inflight"]

\* place_order: asyncio.gather starts every request; cancel_order: the
\* loop awaits the first request before it issues the second.
InitialTasks(kind, n) ==
    [i \in 1..n |-> IF kind = "place" \/ i = 1 THEN "inflight" ELSE "new"]

\* What a successful request leaves behind: in cancel_order the loop
\* moves on to the next order id.
AfterSuccess(kind, ts, i) ==
    [j \in DOMAIN ts |->
        IF j = i THEN "ok"
        ELSE IF kind = "cancel" /\ j = i + 1 /\ ts[j] = "new" THEN "inflight"
        ELSE ts[j]]

\* A gather that returned on the first success.
MayReturnOnFirst(ts) == \E i \in DOMAIN ts : ts[i] = "ok"

\* The mutating call returns when every request has succeeded.
MayReturn(ts) == \A i \in DOMAIN ts : ts[i] = "ok"

\* The mutating call fails as soon as one request has raised.
MustFail(ts) == \E i \in DOMAIN ts : ts[i] = "raised"

InitClock == now = 0

InitOrders ==
    /\ brokerOrders = 0
    /\ ordersCache = NoEntry
    /\ rPc = [r \in Readers |-> "idle"]
    /\ rSnap = [r \in Readers |-> 0]
    /\ rFloor = [r \in Readers |-> 0]
    /\ rResult = [r \in Readers |-> 0]
    /\ mKind = "none"
    /\ mPc = "idle"
    /\ orders = <<>>
    /\ tasks = <<>>
    /\ payload = <<>>
    /\ returnedVer = 0

\* Time passes.
Tick ==
    /\ now + TickSize <= MaxTime
    /\ now' = now + TickSize
    /\ UNCHANGED notClock

\* Client.orders up to its first await: a cached list is returned, a
\* miss starts the account fetch.
OrdersCall(r) ==
    /\ rPc[r] = "idle"
    /\ rFloor' = [rFloor EXCEPT ![r] = returnedVer]
    /\ IF InCache(ordersCache)
       THEN /\ rPc' = [rPc EXCEPT ![r] = "done"]
            /\ rResult' = [rResult EXCEPT ![r] = ordersCache.value]
       ELSE /\ rPc' = [rPc EXCEPT ![r] = "get_account"]
            /\ UNCHANGED rResult
    /\ UNCHANGED <<brokerOrders, ordersCache, rSnap, mKind, mPc, orders,
                   tasks, payload, returnedVer>>
    /\ UNCHANGED notOrders

\* _get_accounts: the account fetch answers with the broker's order
\* list of that moment; the user principals lookup is awaited next.
OrdersAccount(r, outcome) ==
    /\ rPc[r] = "get_account"
    /\ IF outcome = "ok"
       THEN /\ rSnap' = [rSnap EXCEPT ![r] = brokerOrders]
            /\ rPc' = [rPc EXCEPT ![r] = "principals"]
       ELSE /\ rPc' = [rPc EXCEPT ![r] = "failed"]
            /\ UNCHANGED rSnap
    /\ UNCHANGED <<brokerOrders, ordersCache, rFloor, rResult, mKind, mPc,
                   orders, tasks, payload, returnedVer>>
    /\ UNCHANGED notOrders

\* The user principals lookup answers; Client.orders stores the list it
\* fetched in the cache and returns the cached list.
OrdersPrincipals(r, outcome) ==
    /\ rPc[r] = "principals"
    /\ IF outcome = "ok"
       THEN /\ ordersCache' = CacheEntry(rSnap[r])
            /\ rResult' = [rResult EXCEPT ![r] = rSnap[r]]
            /\ rPc' = [rPc EXCEPT ![r] = "done"]
       ELSE /\ rPc' = [rPc EXCEPT ![r] = "failed"]
            /\ UNCHANGED <<ordersCache, rResult>>
    /\ UNCHANGED <<brokerOrders, rSnap, rFloor, mKind, mPc, orders, tasks,
                   payload, returnedVer>>
    /\ UNCHANGED notOrders

\* The caller has its answer and may read again.
OrdersDone(r) ==
    /\ rPc[r] \in {"done", "failed"}
    /\ rPc' = [rPc EXCEPT ![r] = "idle"]
    /\ rSnap' = [rSnap EXCEPT ![r] = 0]
    /\ rFloor' = [rFloor EXCEPT ![r] = 0]
    /\ rResult' = [rResult EXCEPT ![r] = 0]
    /\ UNCHANGED <<brokerOrders, ordersCache, mKind, mPc, orders, tasks,
                   payload, returnedVer>>
    /\ UNCHANGED notOrders

\* place_order / cancel_order up to the first await: the account's order
\* list is evicted, every order is put in wire form, the first requests go out.
MutatingCall(kind, os) ==
    /\ mPc = "idle"
    /\ mKind = "none"
    /\ mKind' = kind
    /\ mPc' = "running"
    /\ orders' = os
    /\ ordersCache' = Evict(ordersCache)
    /\ tasks' = InitialTasks(kind, Len(os))
    /\ payload' = [i \in 1..Len(os) |-> IF kind = "place" THEN Build(os[i]) ELSE os[i]]
    /\ UNCHANGED <<brokerOrders, rPc, rSnap, rFloor, rResult, returnedVer>>
    /\ UNCHANGED notOrders

\* One place or cancel request completes.  A request started by gather
\* is not cancelled when a sibling raises.
RequestDone(i, outcome) ==
    /\ mKind # "none"
    /\ i \in DOMAIN tasks
    /\ tasks[i] = "inflight"
    /\ mPc = "running" \/ mKind = "place"
    /\ IF outcome = "ok"
       THEN /\ brokerOrders' = brokerOrders + 1
            /\ tasks' = IF mPc = "running"
                        THEN AfterSuccess(mKind, tasks, i)
                        ELSE [tasks EXCEPT ![i] = "ok"]
       ELSE /\ tasks' = [tasks EXCEPT ![i] = "raised"]
            /\ UNCHANGED brokerOrders
    /\ UNCHANGED <<ordersCache, rPc, rSnap, rFloor, rResult, mKind, mPc,
                   orders, payload, returnedVer>>
    /\ UNCHANGED notOrders

\* Every request succeeded: the mutating call returns.
MutatingReturn ==
    /\ mPc = "running"
    /\ MayReturn(tasks)
    /\ mPc' = "returned"
    /\ returnedVer' = brokerOrders
    /\ UNCHANGED <<brokerOrders, ordersCache, rPc, rSnap, rFloor, rResult,
                   mKind, orders, tasks, payload>>
    /\ UNCHANGED notOrders

\* A request raised: the exception propagates out of the mutating call.
MutatingFail ==
    /\ mPc = "running"
    /\ MustFail(tasks)
    /\ mPc' = "failed"
    /\ UNCHANGED <<brokerOrders, ordersCache, rPc, rSnap, rFloor, rResult,
                   mKind, orders, tasks, payload, returnedVer>>
    /\ UNCHANGED notOrders

OrderLists ==
    UNION {[1..n -> OrderInputs] : n \in 0..MaxOrders}

NextOrders ==
    \/ Tick
    \/ \E r \in Readers : OrdersCall(r)
    \/ \E r \in Readers, outcome \in GetOutcomes : OrdersAccount(r, outcome)
    \/ \E r \in Readers, outcome \in GetOutcomes : OrdersPrincipals(r, outcome)
    \/ \E r \in Readers : OrdersDone(r)
    \/ \E kind \in {"place", "cancel"}, os \in OrderLists : MutatingCall(kind, os)
    \/ \E i \in 1..MaxOrders, outcome \in GetOutcomes : RequestDone(i, outcome)
    \/ MutatingReturn
    \/ MutatingFail

\* ===================================================================
\* Quote cache
\* ===================================================================

Symbols == {"AAA", "BBB"}

\* The concurrent callers of Client.quote.
QuoteCallers == {"q1", "q2"}

NoQuotes == [s \in Symbols |-> -1]

\* A quote() that asked the broker for every symbol, cached or not.
UncachedAll(S, cache) == S

\* The loop of Client.quote: the symbols left for the broker are those
\* with no entry in the cache.
Uncached(S, cache) == {s \in S : ~InCache(cache[s])}

\* The loop of Client.quote: the quotes taken from the cache.
FromCache(S, cache) ==
    [s \in Symbols |-> IF s \in S /\ InCache(cache[s]) THEN cache[s].value ELSE -1]

\* Client._quote: "self._cache.quotes.update(quotes)"
UpdateCache(cache, R, value) ==
    [s \in Symbols |-> IF s \in R THEN CacheEntry(value) ELSE cache[s]]

\* Client.quote: "quotes.update(await self._quote(symbols))"
UpdateQuotes(quotes, R, value) ==
    [s \in Symbols |-> IF s \in R THEN value ELSE quotes[s]]

InitQuote ==
    /\ brokerQuote = 0
    /\ quotesCache = [s \in Symbols |-> NoEntry]
    /\ qPc = [q \in QuoteCallers |-> "idle"]
    /\ qAsked = [q \in QuoteCallers |-> {}]
    /\ qRequested = [q \in QuoteCallers |-> {}]
    /\ qRequests = [q \in QuoteCallers |-> 0]
    /\ qResult = [q \in QuoteCallers |-> NoQuotes]
    /\ qReturned = [q \in QuoteCallers |-> {}]
    /\ qSeen = [q \in QuoteCallers |-> [s \in Symbols |-> NoEntry]]
    /\ qAt = [q \in QuoteCallers |-> 0]
    /\ qDoneAt = [q \in QuoteCallers |-> 0]

\* The market moves: the broker's quotes change.
MarketMoves ==
    /\ brokerQuote < MaxQuote
    /\ brokerQuote' = brokerQuote + 1
    /\ UNCHANGED <<quotesCache, qPc, qAsked, qRequested, qRequests, qResult,
                   qReturned, qSeen, qAt, qDoneAt>>
    /\ UNCHANGED notQuote

\* Client.quote up to its await: cached symbols are answered from the
\* cache; the rest, if any, go to the broker in one request.
QuoteCall(q, S) ==
    /\ qPc[q] = "idle"
    /\ qAsked' = [qAsked EXCEPT ![q] = S]
    /\ qSeen' = [qSeen EXCEPT ![q] = quotesCache]
    /\ qAt' = [qAt EXCEPT ![q] = now]
    /\ qResult' = [qResult EXCEPT ![q] = FromCache(S, quotesCache)]
    /\ LET symbols == Uncached(S, quotesCache)
       IN  /\ qRequested' = [qRequested EXCEPT ![q] = symbols]
           /\ IF symbols # {}
              THEN /\ qPc' = [qPc EXCEPT ![q] = "fetching"]
                   /\ qRequests' = [qRequests EXCEPT ![q] = 1]
                   /\ UNCHANGED qDoneAt
              ELSE /\ qPc' = [qPc EXCEPT ![q] = "done"]
                   /\ qRequests' = [qRequests EXCEPT ![q] = 0]
                   /\ qDoneAt' = [qDoneAt EXCEPT ![q] = now]
    /\ UNCHANGED <<brokerQuote, quotesCache, qReturned>>
    /\ UNCHANGED notQuote

\* Client._quote after its await and the rest of Client.quote: the
\* broker's answer (the symbols it knows, R) is merged into the cache
\* and into the quotes returned.
QuoteResponse(q, outcome, R) ==
    /\ qPc[q] = "fetching"
    /\ R \subseteq qRequested[q]
    /\ IF outcome = "ok"
       THEN /\ quotesCache' = UpdateCache(quotesCache, R, brokerQuote)
            /\ qResult' = [qResult EXCEPT ![q] = UpdateQuotes(qResult[q], R, brokerQuote)]
            /\ qReturned' = [qReturned EXCEPT ![q] = R]
            /\ qDoneAt' = [qDoneAt EXCEPT ![q] = now]
            /\ qPc' = [qPc EXCEPT ![q] = "done"]
       ELSE /\ R = {}
            /\ qPc' = [qPc EXCEPT ![q] = "failed"]
            /\ UNCHANGED <<quotesCache, qResult, qReturned, qDoneAt>>
    /\ UNCHANGED <<brokerQuote, qAsked, qRequested, qRequests, qSeen, qAt>>
    /\ UNCHANGED notQuote

\* The caller has its answer and may ask again.
QuoteDone(q) ==
    /\ qPc[q] \in {"done", "failed"}
    /\ qPc' = [qPc EXCEPT ![q] = "idle"]
    /\ qAsked' = [qAsked EXCEPT ![q] = {}]
    /\ qRequested' = [qRequested EXCEPT ![q] = {}]
    /\ qRequests' = [qRequests EXCEPT ![q] = 0]
    /\ qResult' = [qResult EXCEPT ![q] = NoQuotes]
    /\ qReturned' = [qReturned EXCEPT ![q] = {}]
    /\ qSeen' = [qSeen EXCEPT ![q] = [s \in Symbols |-> NoEntry]]
    /\ qAt' = [qAt EXCEPT ![q] = 0]
    /\ qDoneAt' = [qDoneAt EXCEPT ![q] = 0]
    /\ UNCHANGED <<brokerQuote, quotesCache>>
    /\ UNCHANGED notQuote

NextQuote ==
    \/ Tick
    \/ MarketMoves
    \/ \E q \in QuoteCallers, S \in SUBSET Symbols : QuoteCall(q, S)
    \/ \E q \in QuoteCallers, outcome \in GetOutcomes, R \in SUBSET Symbols :
          QuoteResponse(q, outcome, R)
    \/ \E q \in QuoteCallers : QuoteDone(q)

\* ===================================================================
\* Wheelie orchestrator: order confirmation and submission
\* ===================================================================

\* The Options a Wheel can recommend (two Wheels may recommend the same
\* contract, so the same order can be queued twice).
OptionIds == {"opt1", "opt2"}

\* Option.trigger_order().build(): the wire form of the Option's
\* sell-to-open order with its buy-to-close child.
TriggerOrder(o) == [strategy |-> "TRIGGER", option |-> o]

TriggerOrders == {TriggerOrder(o) : o \in OptionIds}

\* What the user types at the "Send order?" prompt; "" is Enter alone.
Answers == {"y", "n", ""}

\* A prompt whose default answer accepted.
ConfirmDefaultYes(answer) == answer # "n"

\* rich.prompt.Confirm.ask("Send order?", default=False)
Confirm(answer) == answer = "y"

\* The number of times x occurs in the sequence.
Count(seq, x) == Cardinality({i \in DOMAIN seq : seq[i] = x})

\* "if not orders: return"
NothingToSend(orders_) == Len(orders_) = 0

InitWheelie ==
    /\ wPc = "evaluating"
    /\ autoSend = FALSE
    /\ options = <<>>
    /\ answers = <<>>
    /\ queue = <<>>
    /\ sendTasks = <<>>
    /\ placed = [o \in TriggerOrders |-> 0]

\* The Wheels have run: their Options are collected and the table is
\* printed.  With auto_send_orders every trigger order is queued at once.
WheelsDone(auto, opts) ==
    /\ wPc = "evaluating"
    /\ autoSend' = auto
    /\ options' = opts
    /\ wPc' = "queuing"
    /\ queue' = IF auto THEN [i \in DOMAIN opts |-> TriggerOrder(opts[i])] ELSE <<>>
    /\ UNCHANGED <<answers, sendTasks, placed>>
    /\ UNCHANGED notWheelie

\* Without auto_send_orders: the next Option's order is printed and the
\* user is asked whether to send it.
Prompt(answer) ==
    /\ wPc = "queuing"
    /\ ~autoSend
    /\ Len(answers) < Len(options)
    /\ answers' = Append(answers, answer)
    /\ queue' = IF Confirm(answer)
                THEN Append(queue, TriggerOrder(options[Len(answers) + 1]))
                ELSE queue
    /\ UNCHANGED <<wPc, autoSend, options, sendTasks, placed>>
    /\ UNCHANGED notWheelie

\* Every Option has been dealt with: return if nothing is queued, else
\* gather one send_order task per queued order.
StartSending ==
    /\ wPc = "queuing"
    /\ autoSend \/ Len(answers) = Len(options)
    /\ IF NothingToSend(queue)
       THEN wPc' = "returned" /\ UNCHANGED sendTasks
       ELSE wPc' = "sending" /\ sendTasks' = [i \in DOMAIN queue |-> "new"]
    /\ UNCHANGED <<autoSend, options, answers, queue, placed>>
    /\ UNCHANGED notWheelie

\* A send_order task reaches the broker: client.place_order makes the
\* place request for its order.
SendOrder(i) ==
    /\ wPc = "sending"
    /\ i \in DOMAIN sendTasks
    /\ sendTasks[i] = "new"
    /\ sendTasks' = [sendTasks EXCEPT ![i] = "inflight"]
    /\ placed' = [placed EXCEPT ![queue[i]] = @ + 1]
    /\ UNCHANGED <<wPc, autoSend, options, answers, queue>>
    /\ UNCHANGED notWheelie

\* The place request of a send_order task completes.
SendDone(i, outcome) ==
    /\ wPc = "sending"
    /\ i \in DOMAIN sendTasks
    /\ sendTasks[i] = "inflight"
    /\ sendTasks' = [sendTasks EXCEPT ![i] = IF outcome = "ok" THEN "ok" ELSE "raised"]
    /\ UNCHANGED <<wPc, autoSend, options, answers, queue, placed>>
    /\ UNCHANGED notWheelie

\* gather returns: every order was sent.
WheelieReturn ==
    /\ wPc = "sending"
    /\ MayReturn(sendTasks)
    /\ wPc' = "done"
    /\ UNCHANGED <<autoSend, options, answers, queue, sendTasks, placed>>
    /\ UNCHANGED notWheelie

\* A submission raised: the command fails; tasks not yet run are dropped.
WheelieFail ==
    /\ wPc = "sending"
    /\ MustFail(sendTasks)
    /\ wPc' = "failed"
    /\ UNCHANGED <<autoSend, options, answers, queue, sendTasks, placed>>
    /\ UNCHANGED notWheelie

OptionLists == UNION {[1..n -> OptionIds] : n \in 0..MaxOptions}

NextWheelie ==
    \/ \E auto \in BOOLEAN, opts \in OptionLists : WheelsDone(auto, opts)
    \/ \E answer \in Answers : Prompt(answer)
    \/ StartSending
    \/ \E i \in 1..MaxOptions : SendOrder(i)
    \/ \E i \in 1..MaxOptions, outcome \in GetOutcomes : SendDone(i, outcome)
    \/ WheelieReturn
    \/ WheelieFail

\* ===================================================================
\* The Wheel decision engine (one Wheel)
\* ===================================================================

\* The facts one Wheel run reads.  Share and contract counts come from
\* the positions, target_buying_power from the account summary and the
\* ticker's weight, price and close from the quote and the history,
\* threshold is write_threshold, max_contracts_percent is in percent.
\* call_candidate and put_candidate tell whether a contract of the chain
\* meets config.call_conditions / put_conditions (days to expiration,
\* not in the money, delta, contract type), candidate_price is the
\* market price of the best such contract and min_contract_price the
\* ticker's configured minimum, both in cents.
WheelInputs ==
    [num_shares : {0, 100, 250},
     num_calls : 0..2,
     num_puts : 0..2,
     target_buying_power : {0, 250, 400},
     max_contracts_percent : {5, 100},
     price : {1, 2},
     close : {1, 2},
     threshold : {0, 2},
     had_order_today : BOOLEAN,
     chain_empty : BOOLEAN,
     call_candidate : BOOLEAN,
     put_candidate : BOOLEAN,
     candidate_price : {1, 10},
     min_contract_price : {5}]

NoWheel ==
    [num_shares |-> 0, num_calls |-> 0, num_puts |-> 0,
     target_buying_power |-> 0, max_contracts_percent |-> 5, price |-> 1,
     close |-> 1, threshold |-> 0, had_order_today |-> FALSE,
     chain_empty |-> TRUE, call_candidate |-> FALSE, put_candidate |-> FALSE,
     candidate_price |-> 1, min_contract_price |-> 5]

Abs(x) == IF x < 0 THEN -x ELSE x

\* Ticker.change
Change(w) == Abs(w.price - w.close)

\* Wheel.is_red / Wheel.is_green
IsRed(w) == w.price < w.close

IsGreen(w) == w.price > w.close

\* A target_shares that rounded to the nearest 100 instead of down.
TargetSharesNearest(w) ==
    ((w.target_buying_power + (w.price * Lot) \div 2) \div (w.price * Lot)) * Lot

\* Wheel.target_shares: rounded down to the nearest 100
TargetShares(w) == (w.target_buying_power \div (w.price * Lot)) * Lot

\* Wheel.net_target_calls
NetTargetCalls(w) == (w.num_shares \div Lot) - w.num_calls

\* Wheel.net_target_puts
NetTargetPuts(w) == (TargetShares(w) \div Lot) - w.num_puts

\* Wheel.net_target_shares
NetTargetShares(w) == TargetShares(w) - w.num_shares - w.num_puts * Lot

\* Wheel.has_shares
HasShares(w) == w.num_shares > 0

\* Wheel.has_excess_calls / has_excess_puts / has_excess_shares
HasExcessCalls(w) == NetTargetCalls(w) < 0

HasExcessPuts(w) == NetTargetPuts(w) < 0

HasExcessShares(w) == IF ~HasShares(w) THEN FALSE ELSE NetTargetShares(w) < 0

\* Wheel.excess_calls / excess_puts / excess_shares
ExcessCalls(w) == IF HasExcessCalls(w) THEN Abs(NetTargetCalls(w)) ELSE 0

ExcessPuts(w) == IF HasExcessPuts(w) THEN Abs(NetTargetPuts(w)) ELSE 0

ExcessShares(w) == Abs(TargetShares(w) - w.num_shares)

\* Wheel.maximum_new_contracts
MaximumNewContracts(w) ==
    Max(1, ((w.target_buying_power * w.max_contracts_percent)
                \div (100 * w.price)) \div Lot)

\* A to_write_calls that did not cap the count at maximum_new_contracts.
ToWriteCallsUncapped(w) ==
    IF NetTargetCalls(w) < 0 THEN 0 ELSE NetTargetCalls(w)

\* Wheel.to_write_calls / to_write_puts
ToWriteCalls(w) ==
    IF NetTargetCalls(w) < 0 THEN 0
    ELSE Min(MaximumNewContracts(w), NetTargetCalls(w))

ToWritePuts(w) ==
    IF NetTargetPuts(w) < 0 THEN 0
    ELSE Min(MaximumNewContracts(w), NetTargetPuts(w))

\* A write_calls that looked at the excess calls only after the count.
CallGateOrderCountFirst ==
    <<"nothing_to_write", "excess_calls", "not_green", "below_threshold",
      "order_today", "no_candidate">>

\* The checks of write_calls, in the order of the code.
CallGateOrder ==
    <<"excess_calls", "nothing_to_write", "not_green", "below_threshold",
      "order_today", "no_candidate">>

\* A write_puts that compared net_target_shares before the excess checks.
PutGateOrderNetFirst ==
    <<"negative_net_target", "excess_shares", "excess_puts", "not_red",
      "below_threshold", "nothing_to_write", "order_today", "no_candidate">>

\* The checks of write_puts, in the order of the code.
PutGateOrder ==
    <<"excess_shares", "excess_puts", "negative_net_target", "not_red",
      "below_threshold", "nothing_to_write", "order_today", "no_candidate">>

\* Whether a check of write_calls stops the sequence.
CallStops(g, w) ==
    CASE g = "excess_calls" -> HasExcessCalls(w)
      [] g = "nothing_to_write" -> ToWriteCalls(w) = 0
      [] g = "not_green" -> ~IsGreen(w)
      [] g = "below_threshold" -> Change(w) < w.threshold
      [] g = "order_today" -> w.had_order_today
      [] g = "no_candidate" -> ~w.call_candidate

\* Whether a check of write_puts stops the sequence.
PutStops(g, w) ==
    CASE g = "excess_shares" -> HasExcessShares(w)
      [] g = "excess_puts" -> HasExcessPuts(w)
      [] g = "negative_net_target" -> NetTargetShares(w) < 0
      [] g = "not_red" -> ~IsRed(w)
      [] g = "below_threshold" -> Change(w) < w.threshold
      [] g = "nothing_to_write" -> ToWritePuts(w) = 0
      [] g = "order_today" -> w.had_order_today
      [] g = "no_candidate" -> ~w.put_candidate

\* The line a stopping check of write_calls appends to the display.
CallLine(g, w) ==
    IF g = "excess_calls"
    THEN [kind |-> "excess", what |-> "calls", why |-> "", n |-> ExcessCalls(w)]
    ELSE [kind |-> "skip", what |-> "calls", why |-> g, n |-> 0]

\* The line a stopping check of write_puts appends to the display.
PutLine(g, w) ==
    CASE g = "excess_shares" ->
            [kind |-> "excess", what |-> "shares", why |-> "", n |-> ExcessShares(w)]
      [] g = "excess_puts" ->
            [kind |-> "excess", what |-> "puts", why |-> "", n |-> ExcessPuts(w)]
      [] OTHER -> [kind |-> "skip", what |-> "puts", why |-> g, n |-> 0]

\* __display_target and the rendering of the recorded Option
TargetLine(what, n) == [kind |-> "target", what |-> what, why |-> "", n |-> n]

OptionLine(what, n) == [kind |-> "option", what |-> what, why |-> "", n |-> n]

InitWheel ==
    /\ wheel = NoWheel
    /\ runPc = "new"
    /\ callPc = 0
    /\ putPc = 0
    /\ callGates = <<>>
    /\ putGates = <<>>
    /\ display = <<>>
    /\ wheelOptions = <<>>

\* Wheel.__call__ up to the gather: a ticker without an option chain is
\* skipped; otherwise both write sequences are started on the facts w.
\* The preload that comes between, and its failure on the conversion
\* of the history, is in the actions of the run (TickerPreload).
WheelCall ==
    /\ runPc = "new"
    /\ \E w \in WheelInputs :
        /\ wheel' = w
        /\ IF w.chain_empty
           THEN /\ runPc' = "done"
                /\ display' = <<[kind |-> "skip", what |-> "ticker", why |-> "no_options", n |-> 0]>>
                /\ callPc' = -1
                /\ putPc' = -1
           ELSE /\ runPc' = "writing"
                /\ display' = <<>>
                /\ callPc' = 1
                /\ putPc' = 1
    /\ UNCHANGED <<callGates, putGates, wheelOptions>>
    /\ UNCHANGED notWheel

\* write_calls evaluates its next check: the first check that applies
\* logs its line and ends the sequence; past the last check the Option
\* is recorded.
WriteCalls ==
    /\ runPc = "writing"
    /\ callPc \in DOMAIN CallGateOrder
    /\ LET g == CallGateOrder[callPc]
           n == ToWriteCalls(wheel)
       IN  /\ callGates' = Append(callGates, g)
           /\ IF CallStops(g, wheel)
              THEN /\ callPc' = -1
                   /\ display' =
                        IF g = "no_candidate"
                        THEN display \o <<TargetLine("calls", n), CallLine(g, wheel)>>
                        ELSE Append(display, CallLine(g, wheel))
                   /\ UNCHANGED wheelOptions
              ELSE IF callPc = Len(CallGateOrder)
              THEN /\ callPc' = -1
                   /\ wheelOptions' = Append(wheelOptions, [put_call |-> "CALL", num_contracts |-> n,
                                         price |-> wheel.candidate_price])
                   /\ display' = display \o <<TargetLine("calls", n), OptionLine("calls", n)>>
              ELSE /\ callPc' = callPc + 1
                   /\ UNCHANGED <<display, wheelOptions>>
    /\ UNCHANGED <<wheel, runPc, putPc, putGates>>
    /\ UNCHANGED notWheel

\* write_puts evaluates its next check, likewise.
WritePuts ==
    /\ runPc = "writing"
    /\ putPc \in DOMAIN PutGateOrder
    /\ LET g == PutGateOrder[putPc]
           n == ToWritePuts(wheel)
       IN  /\ putGates' = Append(putGates, g)
           /\ IF PutStops(g, wheel)
              THEN /\ putPc' = -1
                   /\ display' =
                        IF g = "no_candidate"
                        THEN display \o <<TargetLine("puts", n), PutLine(g, wheel)>>
                        ELSE Append(display, PutLine(g, wheel))
                   /\ UNCHANGED wheelOptions
              ELSE IF putPc = Len(PutGateOrder)
              THEN /\ putPc' = -1
                   /\ wheelOptions' = Append(wheelOptions, [put_call |-> "PUT", num_contracts |-> n,
                                         price |-> wheel.candidate_price])
                   /\ display' = display \o <<TargetLine("puts", n), OptionLine("puts", n)>>
              ELSE /\ putPc' = putPc + 1
                   /\ UNCHANGED <<display, wheelOptions>>
    /\ UNCHANGED <<wheel, runPc, callPc, callGates>>
    /\ UNCHANGED notWheel

\* Both write sequences are over: Wheel.__call__ returns the Wheel.
WheelReturn ==
    /\ runPc = "writing"
    /\ callPc = -1
    /\ putPc = -1
    /\ runPc' = "done"
    /\ UNCHANGED <<wheel, callPc, putPc, callGates, putGates, display, wheelOptions>>
    /\ UNCHANGED notWheel

NextWheel ==
    \/ WheelCall
    \/ WriteCalls
    \/ WritePuts
    \/ WheelReturn

\* ===================================================================
\* WheelConfig (commands/wheelie/config.py) and the start of a wheelie run
\* ===================================================================

\* get_type_hints(WheelConfig): the annotated fields and their types.
FieldTypes ==
    [ticker |-> "str",
     max_contracts_percent |-> "float",
     min_contract_price |-> "float",
     sigma |-> "float",
     std_dev_window |-> "int",
     weight |-> "float"]

\* The defaults of the fields; the floats are in hundredths.
Defaults ==
    [max_contracts_percent |-> 5,
     min_contract_price |-> 5,
     sigma |-> 10,
     std_dev_window |-> 35,
     weight |-> 20]

\* The keys a key=value option may name: the fields and an unknown one.
OptionKeys == DOMAIN FieldTypes \cup {"bogus"}

\* The value texts: an integer literal, a decimal literal, a word.
ValueTexts == {"7", "0.5", "abc"}

\* One colon-separated option of a ticker string.  seps is the number of
\* "=" in it: "k=v" has one, "kv" none, "k=v=w" two.
OptionTokens ==
    [key : OptionKeys, value : ValueTexts, seps : {1}]
        \cup [key : {"weight"}, value : {"7"}, seps : {0, 2}]

RECURSIVE SeqsUpTo(_, _)
SeqsUpTo(S, n) ==
    IF n = 0 THEN {<<>>}
    ELSE LET shorter == SeqsUpTo(S, n - 1)
         IN  shorter \cup {Append(q, x) : q \in {r \in shorter : Len(r) = n - 1}, x \in S}

\* The ticker strings "SYMBOL:opt:opt...".
TickerStrings(n) == [symbol : Symbols, opts : SeqsUpTo(OptionTokens, n)]

NoString == [symbol |-> "", opts |-> <<>>]

\* expected_type(value): str() takes any text, float() a number literal,
\* int() an integer literal; the others raise ValueError.
Convert(type, text) ==
    CASE type = "str" -> [ok |-> TRUE, v |-> text]
      [] type = "float" /\ text = "7" -> [ok |-> TRUE, v |-> 700]
      [] type = "float" /\ text = "0.5" -> [ok |-> TRUE, v |-> 50]
      [] type = "int" /\ text = "7" -> [ok |-> TRUE, v |-> 7]
      [] OTHER -> [ok |-> FALSE, v |-> 0]

\* WheelConfig(**kwargs): the fields not given take their defaults.
WheelConfig(kwargs) ==
    [f \in DOMAIN FieldTypes |->
        IF f \in DOMAIN kwargs THEN kwargs[f] ELSE Defaults[f]]

NoConfig == WheelConfig([ticker |-> ""])

\* The keys WheelConfig.parse accepts: `key not in field_types` raises.
ParseKeys == DOMAIN FieldTypes

\* The loop of WheelConfig.parse over options[1:], from option i on.
RECURSIVE ParseOptions(_, _, _)
ParseOptions(opts, i, kwargs) ==
    IF i > Len(opts) THEN [raised |-> "none", config |-> WheelConfig(kwargs)]
    ELSE LET o == opts[i]
         IN  IF o.seps # 1
             THEN [raised |-> "ValueError", config |-> NoConfig]   \* key, value = option.split("=")
             ELSE IF o.key \notin ParseKeys
             THEN [raised |-> "ValueError", config |-> NoConfig]   \* Unknown option
             ELSE LET c == Convert(FieldTypes[o.key], o.value)
                  IN  IF ~c.ok
                      THEN [raised |-> "ValueError", config |-> NoConfig]
                      ELSE ParseOptions(opts, i + 1,
                              [k \in DOMAIN kwargs \cup {o.key} |->
                                  IF k = o.key THEN c.v ELSE kwargs[k]])

\* WheelConfig.parse
Parse(t) == ParseOptions(t.opts, 1, [ticker |-> t.symbol])

\* WheelConfig.__eq__ and the fields of WheelConfig.__hash__
EqFields == {"ticker", "max_contracts_percent", "sigma", "std_dev_window", "weight"}

Eq(a, b) == \A f \in EqFields : a[f] = b[f]

\* set(tickers): an element equal to one already in the set is dropped.
RECURSIVE SetOf(_)
SetOf(q) ==
    IF q = <<>> THEN <<>>
    ELSE LET front == SetOf(SubSeq(q, 1, Len(q) - 1))
             x == q[Len(q)]
         IN  IF \E i \in DOMAIN front : Eq(front[i], x) THEN front
             ELSE Append(front, x)

\* ---- ThetaGang.trending and Stonkers.default_tickers (cli.py) ----

\* The symbol default_tickers falls back to.
Fallback == "GME"

\* One entry of the trends list: a symbol, or "None" for an entry
\* without a "symbol" key.
TrendEntries == {"AAA", Fallback, "None"}

\* What the trends service does with the request: the transport fails
\* (connection error, timeout), it answers with a non-success status,
\* with a success whose body is not JSON, or with a success and a list.
TrendResponses ==
    [kind : {"transport", "status", "bad_json"}, trends : {<<>>}]
        \cup [kind : {"ok"}, trends : SeqsUpTo(TrendEntries, 2)]

NoTrend == [kind |-> "none", trends |-> <<>>]

Excludes == SUBSET {"AAA", Fallback}

\* ThetaGang.trending: httpx.get is called before the try block, so
\* only the status error of raise_for_status is caught.
Trending(resp) ==
    CASE resp.kind = "transport" -> [raised |-> "TransportError", value |-> <<>>]
      [] resp.kind = "status" -> [raised |-> "none", value |-> <<>>]
      [] resp.kind = "bad_json" -> [raised |-> "JSONDecodeError", value |-> <<>>]
      [] OTHER -> [raised |-> "none", value |-> resp.trends]

\* Stonkers.default_tickers
DefaultTickers(resp, ex) ==
    LET t == Trending(resp)
        tickers == IF t.value = <<>> THEN <<Fallback>> ELSE t.value
        Keep(s) == s \notin ex \cup {"None"}
    IN  IF t.raised # "none" THEN t
        ELSE [raised |-> "none", value |-> SelectSeq(tickers, Keep)]

NoDefaults == [raised |-> "none", value |-> <<>>]

\* ---- the actions of WheelConfig.parse and of the start of a run ----

\* The ticker strings with at most one option.
ShortStrings == [symbol : Symbols, opts : {<<>>} \cup {<<o>> : o \in OptionTokens}]

\* The WheelConfig values a caller can build with WheelConfig.parse.
ParsedConfigs == {Parse(t).config : t \in {u \in ShortStrings : Parse(u).raised = "none"}}

StrItem(t) == [kind |-> "str", string |-> t, config |-> NoConfig]

ConfigItem(c) == [kind |-> "config", string |-> NoString, config |-> c]

Bare(sym) == [symbol |-> sym, opts |-> <<>>]

InitConfig ==
    /\ parseInput = NoString
    /\ parseResult = [raised |-> "none", config |-> NoConfig]
    /\ tPc = "idle"
    /\ fromCli = FALSE
    /\ supplied = <<>>
    /\ wArgs = <<>>
    /\ tickerSet = <<>>
    /\ tickerDict = <<>>
    /\ tError = "none"
    /\ brokerCalls = 0

InitCli ==
    /\ trend = NoTrend
    /\ exclude = {}
    /\ defaults = NoDefaults

\* A call of WheelConfig.parse.
ParseCall ==
    /\ tPc = "idle"
    /\ parseInput = NoString
    /\ \E t \in TickerStrings(MaxKeys) :
        /\ parseInput' = t
        /\ parseResult' = Parse(t)
    /\ UNCHANGED <<tPc, fromCli, supplied, wArgs, tickerSet,
                   tickerDict, tError, brokerCalls>>
    /\ UNCHANGED notConfig

\* The `options wheelie` command with tickers on the command line: the
\* strings go to the orchestrator as they are.
CliWheelie ==
    /\ tPc = "idle"
    /\ parseInput = NoString
    /\ \E ts \in SeqsUpTo(ShortStrings, MaxTickers) \ {<<>>} :
        /\ supplied' = ts
        /\ wArgs' = [i \in DOMAIN ts |-> StrItem(ts[i])]
    /\ fromCli' = TRUE
    /\ tPc' = "called"
    /\ UNCHANGED <<parseInput, parseResult, tickerSet,
                   tickerDict, tError, brokerCalls>>
    /\ UNCHANGED notConfig

\* The `options wheelie` command without tickers: default_tickers.
CliWheelieDefault ==
    /\ tPc = "idle"
    /\ parseInput = NoString
    /\ \E resp \in TrendResponses, ex \in Excludes :
        LET d == DefaultTickers(resp, ex)
        IN  /\ trend' = resp
            /\ exclude' = ex
            /\ defaults' = d
            /\ IF d.raised # "none"
               THEN /\ tPc' = "failed"
                    /\ tError' = d.raised
                    /\ wArgs' = <<>>
               ELSE /\ tPc' = "called"
                    /\ tError' = "none"
                    /\ wArgs' = [i \in DOMAIN d.value |-> StrItem(Bare(d.value[i]))]
    /\ fromCli' = TRUE
    /\ UNCHANGED <<parseInput, parseResult, supplied, tickerSet, tickerDict, brokerCalls>>
    /\ UNCHANGED commandVars
    /\ UNCHANGED notConfigNorCli

\* A caller that hands the orchestrator WheelConfig values.
WheelieCall ==
    /\ tPc = "idle"
    /\ parseInput = NoString
    /\ \E cs \in SeqsUpTo(ParsedConfigs, MaxTickers) :
        wArgs' = [i \in DOMAIN cs |-> ConfigItem(cs[i])]
    /\ fromCli' = FALSE
    /\ tPc' = "called"
    /\ UNCHANGED <<parseInput, parseResult, supplied, tickerSet, tickerDict, tError, brokerCalls>>
    /\ UNCHANGED notConfig

\* wheelie, line 91: _tickers = dict((t.ticker, t) for t in set(tickers)).
\* A str has no attribute `ticker`.  The set iterates in hash order, so
\* of the unequal configs of one ticker any one may end up in the dict.
WheelieTickers ==
    /\ tPc = "called"
    /\ IF \E i \in DOMAIN wArgs : wArgs[i].kind = "str"
       THEN /\ tPc' = "failed"
            /\ tError' = "AttributeError"
            /\ UNCHANGED <<tickerSet, tickerDict>>
       ELSE LET set == SetOf([i \in DOMAIN wArgs |-> wArgs[i].config])
                names == {set[i].ticker : i \in DOMAIN set}
                elems == {set[i] : i \in DOMAIN set}
            IN  /\ tPc' = "tickers"
                /\ tickerSet' = set
                /\ tickerDict' \in {d \in [names -> elems] : \A n \in names : d[n].ticker = n}
                /\ UNCHANGED tError
    /\ UNCHANGED <<parseInput, parseResult, fromCli, supplied, wArgs, brokerCalls>>
    /\ UNCHANGED notConfig

\* wheelie, lines 95-101: the account summary is the first broker call.
WheelieAccount ==
    /\ tPc = "tickers"
    /\ tPc' = "account"
    /\ brokerCalls' = brokerCalls + 1
    /\ UNCHANGED <<parseInput, parseResult, fromCli, supplied, wArgs, tickerSet, tickerDict, tError>>
    /\ UNCHANGED notConfig

NextConfig ==
    \/ ParseCall
    \/ CliWheelie
    \/ CliWheelieDefault
    \/ WheelieCall
    \/ WheelieTickers
    \/ WheelieAccount

\* ===================================================================
\* The commands: account rebalance, options expiring, options puts
\* ===================================================================

\* The symbols of the rebalanced portfolio, by position.
Holdings == 1..2

Total(v) == v[1] + v[2]

Cost(shares, prices) == Total([i \in Holdings |-> shares[i] * prices[i]])

\* The inputs of account rebalance.  present: the facade's positions()
\* returned a table (it returns None for an account without positions);
\* portfolio: the shares held of each symbol; allocations: in tenths,
\* summing to 1; solution: floor(solution.x) of the SLSQP optimizer,
\* which can be any non-negative vector.
RebalanceInputs ==
    [present : {TRUE},
     portfolio : {<<0, 0>>, <<1, 0>>, <<2, 1>>},
     allocations : {<<5, 5>>, <<9, 1>>},
     funds : 1..MaxFunds,
     prices : [Holdings -> {1, 3}],
     solution : [Holdings -> 0..MaxBuy]]
        \cup [present : {FALSE},
              portfolio : {<<0, 0>>},
              allocations : {<<5, 5>>, <<9, 1>>},
              funds : 1..MaxFunds,
              prices : [Holdings -> {1, 3}],
              solution : {<<0, 0>>}]

NoRebalance ==
    [present |-> FALSE, portfolio |-> <<0, 0>>, allocations |-> <<5, 5>>,
     funds |-> 1, prices |-> <<1, 1>>, solution |-> <<0, 0>>]

\* rebalance, lines 10-12: allocations * funds / prices, a quantity
\* below one share rounded up, the others rounded down.
InitialShares(in) ==
    [i \in Holdings |->
        LET n == in.allocations[i] * in.funds
            d == 10 * in.prices[i]
        IN  IF n < d THEN (IF n > 0 THEN 1 ELSE 0) ELSE n \div d]

\* rebalance: with holdings of some value the optimizer's solution is
\* returned when it costs something and less than the funds.
Rebalance(in) ==
    IF Cost(in.portfolio, in.prices) > 0
           /\ Cost(in.solution, in.prices) > 0
           /\ in.funds - Cost(in.solution, in.prices) > 0
    THEN in.solution
    ELSE InitialShares(in)

\* The inputs of options expiring: options holds daysToExpiration of the
\* option positions of the account.
ExpiringInputs ==
    [present : {TRUE}, options : SeqsUpTo({1, 9}, 2), dte : {5}]
        \cup [present : {FALSE}, options : {<<>>}, dte : {5}]

NoExpiring == [present |-> FALSE, options |-> <<>>, dte |-> 5]

InitCommands ==
    /\ cmd = "none"
    /\ cmdPc = "idle"
    /\ cmdError = "none"
    /\ rbIn = NoRebalance
    /\ rbOut = <<0, 0>>
    /\ exIn = NoExpiring
    /\ exOut = "none"
    /\ pfParams = [dte_min |-> 0, dte_max |-> 0, pop_min |-> 0, pop_max |-> 0, return_min |-> 0]
    /\ pfTickers = <<>>
    /\ pfChains = <<>>
    /\ pfFetched = 0
    /\ pfTable = [computed |-> FALSE, rows |-> <<>>]

\* The `account rebalance` command: positions["longQuantity"] on the
\* None of an account without positions raises TypeError.
RebalanceCommand ==
    /\ cmd = "none"
    /\ cmd' = "rebalance"
    /\ \E in \in RebalanceInputs :
        /\ rbIn' = in
        /\ IF ~in.present
           THEN /\ cmdPc' = "failed"
                /\ cmdError' = "TypeError"
                /\ UNCHANGED rbOut
           ELSE /\ cmdPc' = "done"
                /\ rbOut' = Rebalance(in)
                /\ UNCHANGED cmdError
    /\ UNCHANGED <<exIn, exOut, pfParams, pfTickers, pfChains, pfFetched, pfTable>>
    /\ UNCHANGED trendVars
    /\ UNCHANGED notCli

\* The `options expiring` command: None positions raise TypeError on
\* positions["assetType"]; without option positions the quote table is
\* built from no quotes and has no "symbol" column to index by.
ExpiringCommand ==
    /\ cmd = "none"
    /\ cmd' = "expiring"
    /\ \E in \in ExpiringInputs :
        /\ exIn' = in
        /\ IF ~in.present
           THEN /\ cmdPc' = "failed"
                /\ cmdError' = "TypeError"
                /\ UNCHANGED exOut
           ELSE IF in.options = <<>>
           THEN /\ cmdPc' = "failed"
                /\ cmdError' = "KeyError"
                /\ UNCHANGED exOut
           ELSE /\ cmdPc' = "done"
                /\ exOut' = IF \E i \in DOMAIN in.options : in.options[i] <= in.dte
                            THEN "table" ELSE "nothing"
                /\ UNCHANGED cmdError
    /\ UNCHANGED <<rbIn, rbOut, pfParams, pfTickers, pfChains, pfFetched, pfTable>>
    /\ UNCHANGED trendVars
    /\ UNCHANGED notCli

\* ---- put_finder (commands/put_finder.py) and `options puts` ----

\* One contract of a put chain: bid and strike in cents, delta in
\* hundredths.
PutRows == [bid : {50, 100}, strikePrice : {1000, 2000}, daysToExpiration : {0, 30}, delta : {-25, -5}]

\* What the broker returns for one ticker: whether the chain has
\* underlying data, and its contracts.
Chains == [underlying : BOOLEAN, rows : SeqsUpTo(PutRows, 1)]

\* round(x, 1) of x = n / (10 * d), in tenths: to the nearest tenth, a
\* tie to the even one.
RoundHalfEven(n, d) ==
    LET q == n \div d
        r == n % d
    IN  IF 2 * r < d THEN q
        ELSE IF 2 * r > d THEN q + 1
        ELSE IF q % 2 = 0 THEN q ELSE q + 1

\* dte.apply(lambda x: x if x > 0 else 1)
Divisor(dte) == IF dte > 0 THEN dte ELSE 1

\* A get_returns that annualized the rounded put return.
GetReturnsOfRounded(row) ==
    LET put == RoundHalfEven(row.bid * 1000, row.strikePrice - row.bid)
    IN  [putReturn |-> put,
         annualReturn |-> RoundHalfEven(put * 365, Divisor(row.daysToExpiration))]

\* get_returns, in tenths of a percent: both returns are rounded at the
\* end, the annual return is computed from the unrounded put return.
GetReturns(row) ==
    [putReturn |-> RoundHalfEven(row.bid * 1000, row.strikePrice - row.bid),
     annualReturn |->
        RoundHalfEven(row.bid * 1000 * 365,
                      (row.strikePrice - row.bid) * Divisor(row.daysToExpiration))]

\* A row of the table with the columns put_finder adds.
Computed(row) ==
    [bid |-> row.bid, strikePrice |-> row.strikePrice,
     daysToExpiration |-> row.daysToExpiration, delta |-> row.delta,
     pop |-> 100 - Abs(row.delta),
     putReturn |-> GetReturns(row).putReturn,
     annualReturn |-> GetReturns(row).annualReturn]

\* pd.concat(chains)
RECURSIVE Concat(_)
Concat(tables) ==
    IF tables = <<>> THEN <<>> ELSE Head(tables) \o Concat(Tail(tables))

\* sort_values("annualReturn", ascending=False)
RECURSIVE SortDescending(_)
SortDescending(rows) ==
    IF rows = <<>> THEN <<>>
    ELSE LET rest == SortDescending(SubSeq(rows, 1, Len(rows) - 1))
             x == rows[Len(rows)]
             before == SelectSeq(rest, LAMBDA r : r.annualReturn >= x.annualReturn)
             after == SelectSeq(rest, LAMBDA r : r.annualReturn < x.annualReturn)
         IN  before \o <<x>> \o after

\* The rows put_finder selects.
Selected(rows, params) ==
    SelectSeq(rows, LAMBDA r :
        /\ r.annualReturn >= params.return_min * 10
        /\ params.pop_min <= r.pop
        /\ r.pop <= params.pop_max)

\* The defaults of put_finder's parameters.
PutFinderDefaults ==
    [dte_min |-> 0, dte_max |-> 60, pop_min |-> 70, pop_max |-> 90, return_min |-> 20]

\* The `options puts` command calls put_finder(client, tickers, dte,
\* pop_min, pop_max, return_min) by position, with its options at their
\* defaults (dte 60, pop_min 70, pop_max 90, return_min 20).
PutsCommandParams ==
    [dte_min |-> 60, dte_max |-> 70, pop_min |-> 90, pop_max |-> 20, return_min |-> 20]

\* The `options puts` command, up to the call of put_finder.
PutsCommand ==
    /\ cmd = "none"
    /\ cmd' = "puts"
    /\ pfParams' = PutsCommandParams
    /\ \/ /\ \E ts \in SeqsUpTo(Symbols, MaxTickers) \ {<<>>} : pfTickers' = ts
          /\ cmdPc' = "chains"
          /\ UNCHANGED <<cmdError, trendVars>>
       \/ \E resp \in TrendResponses, ex \in Excludes :
            LET d == DefaultTickers(resp, ex)
            IN  /\ trend' = resp
                /\ exclude' = ex
                /\ defaults' = d
                /\ pfTickers' = d.value
                /\ IF d.raised # "none"
                   THEN cmdPc' = "failed" /\ cmdError' = d.raised
                   ELSE cmdPc' = "chains" /\ UNCHANGED cmdError
    /\ UNCHANGED <<rbIn, rbOut, exIn, exOut, pfChains, pfFetched, pfTable>>
    /\ UNCHANGED notCli

\* A call of put_finder with its default parameters.
PutFinderCall ==
    /\ cmd = "none"
    /\ cmd' = "put_finder"
    /\ pfParams' = PutFinderDefaults
    /\ \E ts \in SeqsUpTo(Symbols, MaxTickers) : pfTickers' = ts
    /\ cmdPc' = "chains"
    /\ UNCHANGED <<cmdError, rbIn, rbOut, exIn, exOut, pfChains, pfFetched, pfTable>>
    /\ UNCHANGED trendVars
    /\ UNCHANGED notCli

\* put_finder, lines 31-51: one turn of the loop over the tickers; a
\* chain without underlying data is skipped.
FetchChain ==
    /\ cmdPc = "chains"
    /\ pfFetched < Len(pfTickers)
    /\ pfFetched' = pfFetched + 1
    /\ \E chain \in Chains :
        pfChains' = IF chain.underlying THEN Append(pfChains, chain.rows) ELSE pfChains
    /\ UNCHANGED <<cmd, cmdPc, cmdError, rbIn, rbOut, exIn, exOut, pfParams,
                   pfTickers, pfTable>>
    /\ UNCHANGED trendVars
    /\ UNCHANGED notCli

\* put_finder, lines 53-76: pd.concat raises ValueError on an empty
\* list; an empty table is returned as it is, without the added columns.
PutFinderReturn ==
    /\ cmdPc = "chains"
    /\ pfFetched = Len(pfTickers)
    /\ IF pfChains = <<>>
       THEN /\ cmdPc' = "failed"
            /\ cmdError' = "ValueError"
            /\ UNCHANGED pfTable
       ELSE LET table == Concat(pfChains)
                rows == [i \in DOMAIN table |-> Computed(table[i])]
            IN  /\ cmdPc' = IF cmd = "puts" THEN "returned" ELSE "done"
                /\ pfTable' =
                      IF table = <<>> THEN [computed |-> FALSE, rows |-> <<>>]
                      ELSE [computed |-> TRUE,
                            rows |-> SortDescending(Selected(rows, pfParams))]
                /\ UNCHANGED cmdError
    /\ UNCHANGED <<cmd, rbIn, rbOut, exIn, exOut, pfParams, pfTickers,
                   pfChains, pfFetched>>
    /\ UNCHANGED trendVars
    /\ UNCHANGED notCli

\* `options puts`, lines 421-449: the columns are selected and printed;
\* a table without the added columns has no putReturn to select.
PutsPrint ==
    /\ cmd = "puts"
    /\ cmdPc = "returned"
    /\ IF pfTable.computed
       THEN cmdPc' = "done" /\ UNCHANGED cmdError
       ELSE cmdPc' = "failed" /\ cmdError' = "KeyError"
    /\ UNCHANGED <<cmd, rbIn, rbOut, exIn, exOut, pfParams, pfTickers,
                   pfChains, pfFetched, pfTable>>
    /\ UNCHANGED trendVars
    /\ UNCHANGED notCli

NextCli ==
    \/ RebalanceCommand
    \/ ExpiringCommand
    \/ PutsCommand
    \/ PutFinderCall
    \/ FetchChain
    \/ PutFinderReturn
    \/ PutsPrint

\* ===================================================================
\* Options cache
\* ===================================================================

\* The concurrent callers of Client.options.
OptionCallers == {"o1", "o2"}

\* The chain arguments of a call: 1 for none (the Wheel asks for the
\* whole chain), 2 for those of put_finder (contract type PUT, a date
\* range, include_quotes, option type).  A payload is named by the
\* arguments it was fetched with.
ChainArgs == 1..2

\* A cache keyed by the symbol and the chain arguments.
OptionsKeyWithArgs(symbol, kwargs) == <<symbol, kwargs>>

\* Client.options: "self._cache.options[symbol]"
OptionsKey(symbol, kwargs) == <<symbol>>

\* "symbol not in self._cache.options" is false
OptionsHit(cache, k) == k \in DOMAIN cache /\ InCache(cache[k])

InitOptions ==
    /\ optionsCache = <<>>
    /\ opPc = [o \in OptionCallers |-> "idle"]
    /\ opSymbol = [o \in OptionCallers |-> "AAA"]
    /\ opArgs = [o \in OptionCallers |-> 1]
    /\ opRequests = [o \in OptionCallers |-> 0]
    /\ opResult = [o \in OptionCallers |-> 0]
    /\ opSeen = [o \in OptionCallers |-> <<>>]
    /\ opAt = [o \in OptionCallers |-> 0]

\* Client.options up to its await: a cached symbol is answered from the
\* cache, a miss sends the chain request with the caller's arguments.
OptionsCall(o, symbol, kwargs) ==
    /\ opPc[o] = "idle"
    /\ opSymbol' = [opSymbol EXCEPT ![o] = symbol]
    /\ opArgs' = [opArgs EXCEPT ![o] = kwargs]
    /\ opSeen' = [opSeen EXCEPT ![o] = optionsCache]
    /\ opAt' = [opAt EXCEPT ![o] = now]
    /\ LET k == OptionsKey(symbol, kwargs)
       IN  IF OptionsHit(optionsCache, k)
           THEN /\ opPc' = [opPc EXCEPT ![o] = "done"]
                /\ opRequests' = [opRequests EXCEPT ![o] = 0]
                /\ opResult' = [opResult EXCEPT ![o] = optionsCache[k].value]
           ELSE /\ opPc' = [opPc EXCEPT ![o] = "fetching"]
                /\ opRequests' = [opRequests EXCEPT ![o] = 1]
                /\ opResult' = [opResult EXCEPT ![o] = 0]
    /\ UNCHANGED optionsCache
    /\ UNCHANGED notOptions

\* Client.options after its await: the payload is stored under the key
\* and read back from the cache.
OptionsResponse(o, outcome) ==
    /\ opPc[o] = "fetching"
    /\ IF outcome = "ok"
       THEN LET k == OptionsKey(opSymbol[o], opArgs[o])
            IN  /\ optionsCache' =
                      [j \in DOMAIN optionsCache \cup {k} |->
                          IF j = k THEN CacheEntry(opArgs[o]) ELSE optionsCache[j]]
                /\ opResult' = [opResult EXCEPT ![o] = opArgs[o]]
                /\ opPc' = [opPc EXCEPT ![o] = "done"]
       ELSE /\ opPc' = [opPc EXCEPT ![o] = "failed"]
            /\ UNCHANGED <<optionsCache, opResult>>
    /\ UNCHANGED <<opSymbol, opArgs, opRequests, opSeen, opAt>>
    /\ UNCHANGED notOptions

\* The caller has its answer and may ask again.
OptionsDone(o) ==
    /\ opPc[o] \in {"done", "failed"}
    /\ opPc' = [opPc EXCEPT ![o] = "idle"]
    /\ opSymbol' = [opSymbol EXCEPT ![o] = "AAA"]
    /\ opArgs' = [opArgs EXCEPT ![o] = 1]
    /\ opRequests' = [opRequests EXCEPT ![o] = 0]
    /\ opResult' = [opResult EXCEPT ![o] = 0]
    /\ opSeen' = [opSeen EXCEPT ![o] = <<>>]
    /\ opAt' = [opAt EXCEPT ![o] = 0]
    /\ UNCHANGED optionsCache
    /\ UNCHANGED notOptions

NextOptions ==
    \/ Tick
    \/ \E o \in OptionCallers, symbol \in Symbols, kwargs \in ChainArgs : OptionsCall(o, symbol, kwargs)
    \/ \E o \in OptionCallers, outcome \in GetOutcomes : OptionsResponse(o, outcome)
    \/ \E o \in OptionCallers : OptionsDone(o)

\* ===================================================================
\* A wheelie run: account summary, positions, one Wheel per ticker
\* ===================================================================

\* The ticker lists of the runs: one ticker, two tickers, two different
\* configs of one ticker, and those with a second ticker.
RunConfigs ==
    LET a == Parse(Bare("AAA")).config
        a2 == Parse([symbol |-> "AAA",
                     opts |-> <<[key |-> "weight", value |-> "0.5", seps |-> 1]>>]).config
        b == Parse(Bare("BBB")).config
    IN  {<<a>>, <<a, b>>, <<a, a2>>, <<a, a2, b>>}

\* wheelie, line 91: dict((t.ticker, t) for t in set(tickers)), one
\* entry per ticker symbol; which of the unequal configs of one ticker
\* stays depends on the iteration order of the set.
Tickers(cs) ==
    LET set == SetOf(cs)
        names == {set[i].ticker : i \in DOMAIN set}
        elems == {set[i] : i \in DOMAIN set}
    IN  {d \in [names -> elems] : \A n \in names : d[n].ticker = n}

\* The ticker symbols of the Wheels the orchestrator builds from
\* _tickers.values().
WheelsOf(d) == {d[k].ticker : k \in DOMAIN d}

\* The properties of AccountSummary that read the account row.
AccountFields ==
    {"target_buying_power", "available_funds", "display_name", "buying_power",
     "is_day_trader", "maintenance_requirement", "money_market_fund",
     "net_liquidation", "round_trips", "savings", "type"}

\* An account property that answered without the fetch.
AccountGetUnchecked(fetched, field) == "value"

\* AccountSummary.account, through which every field is read: it raises
\* while _account is None.
AccountGet(fetched, field) == IF fetched THEN "value" ELSE "RuntimeError"

\* convert.price_history, which Client.get_price_history_every_day
\* calls on the response, is not defined in convert.py (the function
\* there is named history): the call raises AttributeError.
PriceHistory(outcome) == IF outcome = "ok" THEN "AttributeError" ELSE "HTTPError"

NoRead == [field |-> "", fetched |-> FALSE, outcome |-> "none"]

InitRun ==
    /\ rnPc = "idle"
    /\ rnConfigs = <<>>
    /\ rnTickers = <<>>
    /\ chainOf = [s \in Symbols |-> "empty"]
    /\ account = "unfetched"
    /\ acctRead = NoRead
    /\ positionsLoaded = FALSE
    /\ whPc = [s \in Symbols |-> "none"]
    /\ whSaw = [s \in Symbols |-> [account |-> "unfetched", positions |-> FALSE]]
    /\ whLines = [s \in Symbols |-> 0]
    /\ whDone = [s \in Symbols |-> 0]
    /\ whError = [s \in Symbols |-> "none"]
    /\ rnRows = 0

\* wheelie is called: _tickers is built and the AccountSummary created.
RunStart ==
    /\ rnPc = "idle"
    /\ \E cs \in RunConfigs, ch \in [Symbols -> {"empty", "some"}] :
        /\ rnConfigs' = cs
        /\ rnTickers' \in Tickers(cs)
        /\ chainOf' = ch
    /\ rnPc' = "account"
    /\ UNCHANGED <<account, acctRead, positionsLoaded, whPc, whSaw, whLines,
                   whDone, whError, rnRows>>
    /\ UNCHANGED notRun

\* A field of the AccountSummary is read.
AccountRead ==
    /\ rnPc # "idle"
    /\ \E field \in AccountFields :
        acctRead' = [field |-> field, fetched |-> account = "fetched",
                     outcome |-> AccountGet(account = "fetched", field)]
    /\ UNCHANGED <<rnPc, rnConfigs, rnTickers, chainOf, account, positionsLoaded,
                   whPc, whSaw, whLines, whDone, whError, rnRows>>
    /\ UNCHANGED notRun

\* "await account()": AccountSummary.__call__
AccountFetch ==
    /\ rnPc = "account"
    /\ \E outcome \in GetOutcomes :
        IF outcome = "ok"
        THEN /\ account' = "fetched"
             /\ rnPc' = "positions"
        ELSE /\ rnPc' = "failed"
             /\ UNCHANGED account
    /\ UNCHANGED <<rnConfigs, rnTickers, chainOf, acctRead, positionsLoaded,
                   whPc, whSaw, whLines, whDone, whError, rnRows>>
    /\ UNCHANGED notRun

\* "await positions(client, account_id)"
PositionsLoad ==
    /\ rnPc = "positions"
    /\ \E outcome \in GetOutcomes :
        IF outcome = "ok"
        THEN /\ positionsLoaded' = TRUE
             /\ rnPc' = "prefetch"
        ELSE /\ rnPc' = "failed"
             /\ UNCHANGED positionsLoaded
    /\ UNCHANGED <<rnConfigs, rnTickers, chainOf, account, acctRead,
                   whPc, whSaw, whLines, whDone, whError, rnRows>>
    /\ UNCHANGED notRun

\* The quotes are prefetched and one Wheel per value of _tickers is
\* started.
WheelsStart ==
    /\ rnPc = "prefetch"
    /\ \E outcome \in GetOutcomes :
        IF outcome = "ok"
        THEN /\ rnPc' = "wheels"
             /\ whPc' = [s \in Symbols |->
                            IF s \in WheelsOf(rnTickers) THEN "new" ELSE "none"]
             /\ whSaw' = [s \in Symbols |->
                            IF s \in WheelsOf(rnTickers)
                            THEN [account |-> account, positions |-> positionsLoaded]
                            ELSE whSaw[s]]
        ELSE /\ rnPc' = "failed"
             /\ UNCHANGED <<whPc, whSaw>>
    /\ UNCHANGED <<rnConfigs, rnTickers, chainOf, account, acctRead,
                   positionsLoaded, whLines, whDone, whError, rnRows>>
    /\ UNCHANGED notRun

\* Wheel.__call__ up to the preload: the chain is fetched; a ticker
\* with an empty chain gets its "no options" line and the Wheel returns.
\* The finally clause calls done on every way out.
WheelOptions(s) ==
    /\ rnPc = "wheels"
    /\ whPc[s] = "new"
    /\ \E outcome \in GetOutcomes :
        IF outcome = "raise"
        THEN /\ whPc' = [whPc EXCEPT ![s] = "failed"]
             /\ whError' = [whError EXCEPT ![s] = "HTTPError"]
             /\ whDone' = [whDone EXCEPT ![s] = @ + 1]
             /\ UNCHANGED whLines
        ELSE IF chainOf[s] = "empty"
        THEN /\ whPc' = [whPc EXCEPT ![s] = "done"]
             /\ whLines' = [whLines EXCEPT ![s] = @ + 1]
             /\ whDone' = [whDone EXCEPT ![s] = @ + 1]
             /\ UNCHANGED whError
        ELSE /\ whPc' = [whPc EXCEPT ![s] = "preload"]
             /\ UNCHANGED <<whLines, whDone, whError>>
    /\ UNCHANGED <<rnPc, rnConfigs, rnTickers, chainOf, account, acctRead,
                   positionsLoaded, whSaw, rnRows>>
    /\ UNCHANGED notRun

\* "await self._ticker(progress, task)": Ticker.__call__ awaits the
\* history first, and the history cannot be converted; the exception
\* leaves Wheel.__call__ through its finally clause.
TickerPreload(s) ==
    /\ rnPc = "wheels"
    /\ whPc[s] = "preload"
    /\ \E outcome \in GetOutcomes :
        whError' = [whError EXCEPT ![s] = PriceHistory(outcome)]
    /\ whPc' = [whPc EXCEPT ![s] = "failed"]
    /\ whDone' = [whDone EXCEPT ![s] = @ + 1]
    /\ UNCHANGED <<rnPc, rnConfigs, rnTickers, chainOf, account, acctRead,
                   positionsLoaded, whSaw, whLines, rnRows>>
    /\ UNCHANGED notRun

\* Every Wheel returned: the status table gets one row per result.
RunReturn ==
    /\ rnPc = "wheels"
    /\ \A s \in WheelsOf(rnTickers) : whPc[s] = "done"
    /\ rnPc' = "returned"
    /\ rnRows' = Cardinality(WheelsOf(rnTickers))
    /\ UNCHANGED <<rnConfigs, rnTickers, chainOf, account, acctRead,
                   positionsLoaded, whPc, whSaw, whLines, whDone, whError>>
    /\ UNCHANGED notRun

\* A Wheel raised: asyncio.gather raises and the run fails.
RunFail ==
    /\ rnPc = "wheels"
    /\ \E s \in WheelsOf(rnTickers) : whPc[s] = "failed"
    /\ rnPc' = "failed"
    /\ UNCHANGED <<rnConfigs, rnTickers, chainOf, account, acctRead,
                   positionsLoaded, whPc, whSaw, whLines, whDone, whError, rnRows>>
    /\ UNCHANGED notRun

NextRun ==
    \/ RunStart
    \/ AccountRead
    \/ AccountFetch
    \/ PositionsLoad
    \/ WheelsStart
    \/ \E s \in Symbols : WheelOptions(s)
    \/ \E s \in Symbols : TickerPreload(s)
    \/ RunReturn
    \/ RunFail

\* ===================================================================
\* The memoized facts of the Tickers and Wheels of one run
\* ===================================================================

\* The broker's quote number v as a payload: the last price moves with
\* the market, the prior close stays.
QuotePayload(v) == [lastPrice |-> 2 * v, closePrice |-> 1]

\* The empty cache of a memoized property.
NoSlot(value) == [key |-> "", value |-> value]

\* alru_cache(maxsize=1) on a property: the decorator wraps the function
\* once, in the class body, so each property has one cache of one entry
\* for all the instances; the key is the instance (self).
SlotHit(slot, s) == slot.key = s

\* The state a read of a memoized property works on: the caches of the
\* properties, the facade's quote cache and the record of computations.
ReadState == [memo |-> memo, cache |-> quotesCache, computed |-> computed]

\* Ticker.quote: on a miss Client.quote is called (answered from its own
\* TTL cache or by the broker) and the entry of the property's cache is
\* replaced.
ReadQuote(st, s) ==
    IF SlotHit(st.memo.quote, s)
    THEN [st |-> st, value |-> st.memo.quote.value]
    ELSE LET hit == InCache(st.cache[s])
             v == IF hit THEN st.cache[s].value ELSE brokerQuote
         IN  [st |-> [memo |-> [st.memo EXCEPT !.quote = [key |-> s, value |-> v]],
                      cache |-> IF hit THEN st.cache
                                ELSE [st.cache EXCEPT ![s] = CacheEntry(v)],
                      computed |-> [st.computed EXCEPT ![s].quote = Append(@, v)]],
              value |-> v]

\* Ticker.price: market_price(await self.quote)
ReadPrice(st, s) ==
    IF SlotHit(st.memo.price, s)
    THEN [st |-> st, value |-> st.memo.price.value]
    ELSE LET q == ReadQuote(st, s)
             v == QuotePayload(q.value).lastPrice
         IN  [st |-> [q.st EXCEPT !.memo.price = [key |-> s, value |-> v],
                                  !.computed[s].price = Append(@, v)],
              value |-> v]

\* Ticker.close with the equities market closed:
\* (await self.quote)["closePrice"]
ReadClose(st, s) ==
    IF SlotHit(st.memo.close, s)
    THEN [st |-> st, value |-> st.memo.close.value]
    ELSE LET q == ReadQuote(st, s)
             v == QuotePayload(q.value).closePrice
         IN  [st |-> [q.st EXCEPT !.memo.close = [key |-> s, value |-> v],
                                  !.computed[s].close = Append(@, v)],
              value |-> v]

\* Wheel.is_red: await self._ticker.price < await self._ticker.close
ReadIsRed(st, s) ==
    IF SlotHit(st.memo.is_red, s)
    THEN [st |-> st, value |-> st.memo.is_red.value]
    ELSE LET p == ReadPrice(st, s)
             c == ReadClose(p.st, s)
             v == p.value < c.value
         IN  [st |-> [c.st EXCEPT !.memo.is_red = [key |-> s, value |-> v],
                                  !.computed[s].is_red = Append(@, v)],
              value |-> v]

\* Wheel.is_green: await self._ticker.price > await self._ticker.close
ReadIsGreen(st, s) ==
    IF SlotHit(st.memo.is_green, s)
    THEN [st |-> st, value |-> st.memo.is_green.value]
    ELSE LET p == ReadPrice(st, s)
             c == ReadClose(p.st, s)
             v == p.value > c.value
         IN  [st |-> [c.st EXCEPT !.memo.is_green = [key |-> s, value |-> v],
                                  !.computed[s].is_green = Append(@, v)],
              value |-> v]

InitMemo ==
    /\ tkPc = "idle"
    /\ mConfigs = <<>>
    /\ mTickers = <<>>
    /\ mWheel = [s \in Symbols |-> "none"]
    /\ mSeq = [s \in Symbols |-> [puts |-> "start", calls |-> "start"]]
    /\ memo = [quote |-> NoSlot(0), price |-> NoSlot(0), close |-> NoSlot(0),
               is_red |-> NoSlot(FALSE), is_green |-> NoSlot(FALSE)]
    /\ computed = [s \in Symbols |->
                      [quote |-> <<>>, price |-> <<>>, close |-> <<>>,
                       is_red |-> <<>>, is_green |-> <<>>]]
    /\ mOptions = [s \in Symbols |-> <<>>]
    /\ mAdvances = 0
    /\ mRows = 0

\* wheelie up to the gather: _tickers is built, the quotes of its
\* symbols are prefetched into the facade's cache and one Wheel per
\* value of _tickers is started.
TickersStart ==
    /\ tkPc = "idle"
    /\ \E cs \in RunConfigs :
        /\ mConfigs' = cs
        /\ \E d \in Tickers(cs) :
            /\ mTickers' = d
            /\ mWheel' = [s \in Symbols |-> IF s \in WheelsOf(d) THEN "new" ELSE "none"]
            /\ quotesCache' = UpdateCache(quotesCache, Uncached(DOMAIN d, quotesCache), brokerQuote)
    /\ tkPc' = "wheels"
    /\ UNCHANGED <<mSeq, memo, computed, mOptions, mAdvances, mRows>>
    /\ UNCHANGED <<brokerQuote, qPc, qAsked, qRequested, qRequests, qResult,
                   qReturned, qSeen, qAt, qDoneAt>>
    /\ UNCHANGED <<retryVars, clockVars, orderVars, wheelieVars, wheelVars,
                   configVars, cliVars, optionsVars, runVars>>

\* What a read of a memoized property leaves behind.
AfterRead(r) ==
    /\ memo' = r.st.memo
    /\ quotesCache' = r.st.cache
    /\ computed' = r.st.computed
    /\ UNCHANGED <<brokerQuote, qPc, qAsked, qRequested, qRequests, qResult,
                   qReturned, qSeen, qAt, qDoneAt>>
    /\ UNCHANGED <<retryVars, clockVars, orderVars, wheelieVars, wheelVars,
                   configVars, cliVars, optionsVars, runVars>>

\* The preload of the Wheel's Ticker reads the quote; both write
\* sequences are started.
TickerQuote(s) ==
    /\ tkPc = "wheels"
    /\ mWheel[s] = "new"
    /\ mWheel' = [mWheel EXCEPT ![s] = "writing"]
    /\ AfterRead(ReadQuote(ReadState, s))
    /\ UNCHANGED <<tkPc, mConfigs, mTickers, mSeq, mOptions, mAdvances, mRows>>

\* write_puts: the sequence stops unless the underlying is red; pass
\* tells whether its other checks, which are those of WritePuts and
\* PutStops, let it through to the Option.
PutsColour(s) ==
    /\ mWheel[s] = "writing"
    /\ mSeq[s].puts = "start"
    /\ mSeq' = [mSeq EXCEPT ![s].puts = "over"]
    /\ LET r == ReadIsRed(ReadState, s)
       IN  /\ AfterRead(r)
           /\ \E pass \in BOOLEAN :
                mOptions' = IF r.value /\ pass
                            THEN [mOptions EXCEPT ![s] = Append(@, "PUT")]
                            ELSE mOptions
    /\ UNCHANGED <<tkPc, mConfigs, mTickers, mWheel, mAdvances, mRows>>

\* write_calls: the sequence stops unless the underlying is green.
CallsColour(s) ==
    /\ mWheel[s] = "writing"
    /\ mSeq[s].calls = "start"
    /\ mSeq' = [mSeq EXCEPT ![s].calls = "over"]
    /\ LET r == ReadIsGreen(ReadState, s)
       IN  /\ AfterRead(r)
           /\ \E pass \in BOOLEAN :
                mOptions' = IF r.value /\ pass
                            THEN [mOptions EXCEPT ![s] = Append(@, "CALL")]
                            ELSE mOptions
    /\ UNCHANGED <<tkPc, mConfigs, mTickers, mWheel, mAdvances, mRows>>

\* Both sequences are over: the Wheel returns and calls done.
WheelOver(s) ==
    /\ mWheel[s] = "writing"
    /\ mSeq[s] = [puts |-> "over", calls |-> "over"]
    /\ mWheel' = [mWheel EXCEPT ![s] = "done"]
    /\ mAdvances' = mAdvances + 1
    /\ UNCHANGED <<tkPc, mConfigs, mTickers, mSeq, memo, computed, mOptions, mRows>>
    /\ UNCHANGED notMemo

\* Every Wheel returned: the status table gets one row per result.
TickersReturn ==
    /\ tkPc = "wheels"
    /\ \A s \in WheelsOf(mTickers) : mWheel[s] = "done"
    /\ tkPc' = "returned"
    /\ mRows' = Cardinality(WheelsOf(mTickers))
    /\ UNCHANGED <<mConfigs, mTickers, mWheel, mSeq, memo, computed, mOptions, mAdvances>>
    /\ UNCHANGED notMemo

NextTickers ==
    \/ Tick
    \/ MarketMoves
    \/ TickersStart
    \/ \E s \in Symbols : TickerQuote(s)
    \/ \E s \in Symbols : PutsColour(s)
    \/ \E s \in Symbols : CallsColour(s)
    \/ \E s \in Symbols : WheelOver(s)
    \/ TickersReturn

\* ===================================================================
\* Specifications
\* ===================================================================

Init ==
    /\ InitRetry /\ InitClock /\ InitOrders /\ InitQuote /\ InitWheelie
    /\ InitWheel /\ InitConfig /\ InitCli /\ InitCommands /\ InitOptions
    /\ InitRun /\ InitMemo

\* The retry wrapper.
Spec == Init /\ [][NextRetry]_vars

\* The orders cache with place_order and cancel_order.
SpecOrders == Init /\ [][NextOrders]_vars

\* The quote cache.
SpecQuote == Init /\ [][NextQuote]_vars

\* The wheelie orchestrator's confirmation and submission of orders.
SpecWheelie == Init /\ [][NextWheelie]_vars

\* One Wheel run.
SpecWheel == Init /\ [][NextWheel]_vars

\* WheelConfig.parse and the start of a wheelie run.
SpecConfig == Init /\ [][NextConfig]_vars

\* The commands account rebalance, options expiring and options puts.
SpecCli == Init /\ [][NextCli]_vars

\* The options cache.
SpecOptions == Init /\ [][NextOptions]_vars

\* A wheelie run up to the return of its Wheels.
SpecRun == Init /\ [][NextRun]_vars

\* The memoized facts of the Tickers and Wheels of a run.
SpecTickers == Init /\ [][NextTickers]_vars

\* ===================================================================
\* Claims
\* ===================================================================

Done == getPc \in {"returned", "raised"}

\* C1: once place_order or cancel_order has returned, an orders() read
\* that begins afterwards returns an order list fetched after the
\* mutation: it reflects every mutation of the calls that had returned
\* when the read began.
C1_NextReadIsFresh ==
    \A r \in Readers : rPc[r] = "done" => rResult[r] >= rFloor[r]

\* C2: a wrapped call whose responses are all 429 makes exactly 5
\* attempts and re-raises the HTTP failure; any other error status is
\* raised by the attempt that received it; a success is returned by the
\* attempt that received it.
C2_RetryPolicy ==
    (Done /\ Wrapped(callKind)) =>
        /\ lastStatus = TooManyRequests =>
              (attempt = MaxAttempts /\ getPc = "raised" /\ error = "HTTPError")
        /\ lastStatus = 500 => (getPc = "raised" /\ error = "HTTPError")
        /\ lastStatus = 200 => getPc = "returned"

\* C3: every broker request goes through the retry wrapper: no response
\* with an error status is returned to the facade for conversion, and a
\* request does not end on a 429 before the fifth attempt (a wait
\* computation that itself raises, the subject of C4, set aside).
C3_EveryRequestWrapped ==
    /\ getPc = "returned" => lastStatus = 200
    /\ (Done /\ lastStatus = TooManyRequests /\ error # "TypeError") =>
          attempt = MaxAttempts

\* The delay the retry-after header asks for, in tenths of a second:
\* integer seconds, an HTTP date as a non-negative delay, else 0.
RetryAfterDelay(h) ==
    CASE h.kind = "digits" -> 10 * h.n
      [] h.kind \in {"date_aware", "date_naive"} -> Max(0, 10 * h.n)
      [] OTHER -> 0

\* C4: the wait before attempt k+1 is the larger of the retry-after
\* delay and the backoff 0.2 x 2^(k-1), and computing it never fails.
C4_WaitIsTheLarger ==
    /\ getPc = "waiting" =>
          lastWait = Max(RetryAfterDelay(lastHeader), WaitExponential(attempt))
    /\ error # "TypeError"

\* The symbols of caller q's request that had no unexpired entry in the
\* cache when the call began.
WasUncached(q) ==
    {s \in qAsked[q] : ~(qSeen[q][s].present /\ qAt[q] < qSeen[q][s].expires)}

\* C5: quote(S) makes at most one broker quotes request, none when every
\* symbol of S is cached; the request names exactly the symbols of S
\* without an unexpired cache entry; a cached symbol is answered with its
\* cached value; every symbol the broker answered is in the cache and in
\* the result when quote returns.
C5_QuoteBatch ==
    \A q \in QuoteCallers :
        /\ qRequests[q] <= 1
        /\ qPc[q] # "idle" =>
              /\ qRequested[q] = WasUncached(q)
              /\ qRequests[q] = 0 <=> WasUncached(q) = {}
        /\ qPc[q] = "done" =>
              /\ \A s \in qAsked[q] \ WasUncached(q) :
                    qResult[q][s] = qSeen[q][s].value
              /\ \A s \in qReturned[q] :
                    /\ qResult[q][s] # -1
                    /\ quotesCache[s].present
                    /\ quotesCache[s].expires >= qDoneAt[q] + TTL

\* C5 witness: a batch of two symbols returned with one answered from
\* the cache (an older quote) and the other fetched in the one request.
C5_Witness ==
    \E q \in QuoteCallers, s, t \in Symbols :
        /\ qPc[q] = "done"
        /\ qAsked[q] = {s, t}
        /\ WasUncached(q) = {t}
        /\ qReturned[q] = {t}
        /\ qRequests[q] = 1
        /\ qResult[q][s] # qResult[q][t]

\* C6: place_order starts one request per order at once, each order in
\* wire form; it returns only when all n requests have succeeded and
\* fails, as a whole, when one of them raised.
C6_PlaceOrderBatch ==
    mKind = "place" =>
        /\ \A i \in DOMAIN tasks : tasks[i] # "new" /\ payload[i] = "dict"
        /\ Len(tasks) = Len(orders)
        /\ mPc = "returned" => \A i \in DOMAIN tasks : tasks[i] = "ok"
        /\ mPc = "failed" => \E i \in DOMAIN tasks : tasks[i] = "raised"

\* C6 witness: a batch with an OrderBuilder in it failed as a whole
\* although one of its orders was placed.
C6_Witness ==
    /\ mKind = "place"
    /\ mPc = "failed"
    /\ \E i \in DOMAIN tasks : tasks[i] = "ok"
    /\ \E i \in DOMAIN orders : orders[i] = "builder"

\* C7 as stated: cancel_order issues the cancel request of every id
\* without waiting for an earlier cancel to complete.
C7_CancelsAreConcurrent ==
    mKind = "cancel" => \A i \in DOMAIN tasks : tasks[i] # "new"

\* C7 as amended: cancel_order issues the cancel requests one at a time,
\* in the order given: the request for an id is issued only when the
\* cancel of every earlier id has succeeded, and cancel_order returns
\* only when every cancel has succeeded.
C7_CancelsAreSequential ==
    mKind = "cancel" =>
        /\ \A i, j \in DOMAIN tasks :
              (i < j /\ tasks[j] # "new") => tasks[i] = "ok"
        /\ mPc = "returned" => \A i \in DOMAIN tasks : tasks[i] = "ok"

\* C7 witness: the second cancel is in flight after the first succeeded.
C7_Witness ==
    /\ mKind = "cancel"
    /\ Len(tasks) >= 2
    /\ tasks[1] = "ok"
    /\ tasks[2] = "inflight"

\* The orders the run should have queued: with auto_send_orders the
\* trigger order of every Option, otherwise those of the Options whose
\* prompt was answered with a yes.
RECURSIVE Confirmed(_)
Confirmed(n) ==
    IF n = 0 THEN <<>>
    ELSE IF autoSend \/ answers[n] = "y"
    THEN Append(Confirmed(n - 1), TriggerOrder(options[n]))
    ELSE Confirmed(n - 1)

\* C8: the queue holds exactly the orders of the confirmed Options (all
\* of them, unprompted, with auto_send_orders); no order gets more place
\* requests than it has entries in the queue; a run that completes has
\* made exactly one place request per queued order; a run with nothing
\* queued makes none.
C8_SubmittedEqualsQueued ==
    /\ autoSend => answers = <<>>
    /\ wPc # "evaluating" =>
          queue = Confirmed(IF autoSend THEN Len(options) ELSE Len(answers))
    /\ \A o \in TriggerOrders : placed[o] <= Count(queue, o)
    /\ wPc = "done" => \A o \in TriggerOrders : placed[o] = Count(queue, o)
    /\ wPc = "returned" =>
          (queue = <<>> /\ \A o \in TriggerOrders : placed[o] = 0)
    /\ wPc \in {"sending", "done", "failed"} => queue # <<>>

\* C8 witness: a run without auto_send_orders completed having sent the
\* same order twice and having left out a declined Option.
C8_Witness ==
    /\ wPc = "done"
    /\ ~autoSend
    /\ Len(options) = 3
    /\ Len(queue) = 2
    /\ \E o \in TriggerOrders : placed[o] = 2
    /\ \E i \in DOMAIN answers : answers[i] = ""

\* The lines write_calls left on the display.
CallLines == {i \in DOMAIN display : display[i].what = "calls"}

\* The lines write_puts left on the display.
PutLines == {i \in DOMAIN display : display[i].what \in {"puts", "shares"}}

\* C9: a Wheel with excess calls (num_calls > floor(num_shares / 100))
\* ends write_calls on its first check: no call Option is recorded, the
\* excess-calls warning is on the display, and no later check is made.
C9_ExcessCallsStop ==
    (callPc = -1 /\ ~wheel.chain_empty /\ runPc # "new"
        /\ wheel.num_calls > (wheel.num_shares \div Lot)) =>
        /\ \A i \in DOMAIN wheelOptions : wheelOptions[i].put_call # "CALL"
        /\ callGates = <<"excess_calls">>
        /\ \E i \in CallLines :
              /\ display[i].kind = "excess"
              /\ display[i].n = wheel.num_calls - (wheel.num_shares \div Lot)
        /\ Cardinality(CallLines) = 1

\* C9 witness: write_calls stopped on excess calls although the
\* underlying is green, the change is over the threshold, there is no
\* order of today and the chain has a candidate.
C9_Witness ==
    /\ callPc = -1
    /\ runPc = "done"
    /\ ~wheel.chain_empty
    /\ wheel.num_calls > (wheel.num_shares \div Lot)
    /\ IsGreen(wheel)
    /\ Change(wheel) >= wheel.threshold
    /\ ~wheel.had_order_today
    /\ wheel.call_candidate

\* write_puts is over in a Wheel whose net_target_shares is negative.
PutsOverNegative ==
    /\ putPc = -1
    /\ runPc # "new"
    /\ ~wheel.chain_empty
    /\ ((wheel.target_buying_power \div (wheel.price * Lot)) * Lot)
          - wheel.num_shares - (Lot * wheel.num_puts) < 0

\* C10 as stated: whenever net_target_shares < 0, write_puts stops with
\* the "net target shares is negative" skip reason.
C10_StopsWithNegativeReason ==
    PutsOverNegative =>
        \E i \in PutLines :
            display[i].kind = "skip" /\ display[i].why = "negative_net_target"

\* C10 as amended: whenever net_target_shares < 0, write_puts stops
\* before the red and threshold checks and records no Option, with the
\* excess-shares warning when shares are held and the excess-puts
\* warning otherwise; the "net target shares is negative" line is never
\* written.
C10_StopsWithExcessWarning ==
    /\ PutsOverNegative =>
          /\ \A i \in DOMAIN wheelOptions : wheelOptions[i].put_call # "PUT"
          /\ putGates = IF wheel.num_shares > 0
                        THEN <<"excess_shares">>
                        ELSE <<"excess_shares", "excess_puts">>
          /\ Cardinality(PutLines) = 1
          /\ \A i \in PutLines :
                /\ display[i].kind = "excess"
                /\ display[i].what = IF wheel.num_shares > 0 THEN "shares" ELSE "puts"
    /\ \A i \in DOMAIN display : display[i].why # "negative_net_target"

\* C10 witness: write_puts stopped in a Wheel with negative
\* net_target_shares and no shares although the underlying is red and
\* the change is over the threshold.
C10_Witness ==
    /\ PutsOverNegative
    /\ runPc = "done"
    /\ wheel.num_shares = 0
    /\ IsRed(wheel)
    /\ Change(wheel) >= wheel.threshold

\* C11: for a positive target_buying_power and a positive price,
\* target_shares is a non-negative multiple of 100 and the largest one
\* whose cost at that price does not exceed target_buying_power.
C11_TargetSharesLargestLot ==
    (runPc # "new" /\ wheel.target_buying_power > 0 /\ wheel.price > 0) =>
        LET t == TargetShares(wheel)
        IN  /\ t >= 0
            /\ t % Lot = 0
            /\ t * wheel.price <= wheel.target_buying_power
            /\ (t + Lot) * wheel.price > wheel.target_buying_power

\* C11 witness: a finished run whose target_buying_power is not a whole
\* number of lots at the price, with write_puts having read
\* target_shares.
C11_Witness ==
    /\ runPc = "done"
    /\ ~wheel.chain_empty
    /\ Len(putGates) > 0
    /\ wheel.target_buying_power > 0
    /\ wheel.target_buying_power % (wheel.price * Lot) # 0
    /\ TargetShares(wheel) > 0

\* The five documented keys of a per-ticker configuration.
FiveKeys ==
    {"max_contracts_percent", "min_contract_price", "sigma", "std_dev_window", "weight"}

\* C12: the `options wheelie` command passes every supplied ticker
\* string through WheelConfig.parse before the orchestrator runs (the
\* orchestrator is given the parsed configs), and with an invalid
\* per-ticker configuration the run makes no broker call.
C12_TickersParsedFirst ==
    (fromCli /\ supplied # <<>> /\ tPc # "idle") =>
        /\ (\A i \in DOMAIN supplied : Parse(supplied[i]).raised = "none") =>
              /\ Len(wArgs) = Len(supplied)
              /\ \A i \in DOMAIN supplied :
                    wArgs[i] = ConfigItem(Parse(supplied[i]).config)
              /\ tError = "none"
        /\ (\E i \in DOMAIN supplied : Parse(supplied[i]).raised # "none") =>
              brokerCalls = 0

\* Every option of the parsed string is key=value with one of the five
\* keys and a value of the key's type.
WellFormed ==
    \A i \in DOMAIN parseInput.opts :
        LET o == parseInput.opts[i]
        IN  /\ o.seps = 1
            /\ o.key \in FiveKeys
            /\ Convert(FieldTypes[o.key], o.value).ok

\* C13: WheelConfig.parse succeeds iff every key is one of the five
\* recognized keys and every value converts to the key's type; any
\* other key, `ticker` included, fails with a ValueError.  On success
\* the ticker is the text before the first colon and every key not
\* given keeps its default.
C13_ParseAcceptsFiveKeys ==
    parseInput # NoString =>
        /\ parseResult.raised = IF WellFormed THEN "none" ELSE "ValueError"
        /\ WellFormed =>
              /\ parseResult.config.ticker = parseInput.symbol
              /\ \A f \in FiveKeys :
                    (\A i \in DOMAIN parseInput.opts : parseInput.opts[i].key # f) =>
                        parseResult.config[f] = Defaults[f]

\* C14: two WheelConfig values of one ticker are equal iff all five
\* scalar fields match, so the set the orchestrator builds keeps every
\* config it was given that differs from the others in some field.
C14_SetKeepsDistinctConfigs ==
    tPc \in {"tickers", "account"} =>
        /\ \A i, j \in DOMAIN wArgs :
              Eq(wArgs[i].config, wArgs[j].config) <=> wArgs[i].config = wArgs[j].config
        /\ \A i \in DOMAIN wArgs :
              \E k \in DOMAIN tickerSet : tickerSet[k] = wArgs[i].config

\* C15: for every allocation vector summing to 1, positive funds and
\* positive prices, with any portfolio, the shares rebalance returns
\* cost no more than the funds, also when a quantity between 0 and 1 is
\* rounded up to one share.
C15_CostWithinFunds ==
    (cmd = "rebalance" /\ cmdPc = "done") =>
        Cost(rbOut, rbIn.prices) <= rbIn.funds

\* a is x = n / (10 * d) rounded to one decimal, in tenths.
NearestTenth(a, n, d) == 2 * Abs(n - a * d) <= d

\* The row of the documented example: bid 1.00, strike 20.00, dte 30.
IsExample(r) == r.bid = 100 /\ r.strikePrice = 2000 /\ r.daysToExpiration = 30

\* C16 as stated: annualReturn is computed from the rounded putReturn,
\* annualReturn = round(putReturn / max(dte, 1) * 365, 1), so the
\* example row has putReturn 5.3 and annualReturn 64.5.
C16_AnnualFromRounded ==
    \A i \in DOMAIN pfTable.rows :
        LET r == pfTable.rows[i]
        IN  /\ NearestTenth(r.putReturn, r.bid * 1000, r.strikePrice - r.bid)
            /\ NearestTenth(r.annualReturn, r.putReturn * 365, Max(r.daysToExpiration, 1))
            /\ IsExample(r) => (r.putReturn = 53 /\ r.annualReturn = 645)

\* C16 as amended: putReturn = round(bid / (strike - bid) * 100, 1);
\* annualReturn is computed from the unrounded put return,
\* annualReturn = round(bid / (strike - bid) * 100 / max(dte, 1) * 365, 1),
\* so the example row has putReturn 5.3 and annualReturn 64.0; for
\* dte <= 0 the divisor is 1.
C16_AnnualFromUnrounded ==
    \A i \in DOMAIN pfTable.rows :
        LET r == pfTable.rows[i]
        IN  /\ NearestTenth(r.putReturn, r.bid * 1000, r.strikePrice - r.bid)
            /\ NearestTenth(r.annualReturn, r.bid * 1000 * 365,
                             (r.strikePrice - r.bid) * Max(r.daysToExpiration, 1))
            /\ IsExample(r) => (r.putReturn = 53 /\ r.annualReturn = 640)

\* C16 witness: put_finder returned a table holding the example row
\* and a row that expires today.
C16_Witness ==
    /\ cmd = "put_finder"
    /\ cmdPc = "done"
    /\ \E i \in DOMAIN pfTable.rows : IsExample(pfTable.rows[i])
    /\ \E i \in DOMAIN pfTable.rows : pfTable.rows[i].daysToExpiration = 0

\* C17: when no ticker contributes a chain (no tickers, or every
\* ticker skipped for lack of underlying data) put_finder returns an
\* empty table and does not fail.
C17_EmptyTableWhenNoChains ==
    (/\ cmd \in {"puts", "put_finder"}
     /\ defaults.raised = "none"
     /\ cmdPc \notin {"idle", "chains"}
     /\ pfChains = <<>>) =>
        /\ cmdError # "ValueError"
        /\ pfTable.rows = <<>>

\* C18: ThetaGang.trending never raises: on a transport failure and on
\* a non-success status it returns an empty list, and default_tickers
\* falls back to the hardcoded symbol.
C18_TrendingNeverRaises ==
    trend.kind \in {"transport", "status"} =>
        /\ defaults.raised = "none"
        /\ defaults.value = IF Fallback \in exclude THEN <<>> ELSE <<Fallback>>

\* C19: with an account without positions (positions() returns no
\* value) account rebalance treats the holdings as zero and produces a
\* buy plan, and options expiring ends with its nothing-expiring
\* message.
C19_NoPositionsNoFailure ==
    /\ (cmd = "rebalance" /\ ~rbIn.present) =>
          /\ cmdPc = "done"
          /\ cmdError = "none"
          /\ rbOut = InitialShares(rbIn)
    /\ (cmd = "expiring" /\ ~exIn.present) =>
          /\ cmdPc = "done"
          /\ cmdError = "none"
          /\ exOut = "nothing"

ClaimedPutOrder ==
    <<"excess_shares", "excess_puts", "negative_net_target", "not_red",
      "below_threshold", "nothing_to_write", "order_today", "no_candidate">>

\* The checks of the claimed order that stop write_puts for this Wheel.
FailingPutChecks == {i \in DOMAIN ClaimedPutOrder : PutStops(ClaimedPutOrder[i], wheel)}

\* The put Options the Wheel recorded.
PutOptions == {i \in DOMAIN wheelOptions : wheelOptions[i].put_call = "PUT"}

\* The call Options the Wheel recorded.
CallOptions == {i \in DOMAIN wheelOptions : wheelOptions[i].put_call = "CALL"}

C22_WitnessOrderToday ==
    /\ runPc = "done"
    /\ ~wheel.chain_empty
    /\ putGates = SubSeq(ClaimedPutOrder, 1, 7)
    /\ PutOptions = {}

\* C24: the shares account rebalance returns are the floored solution
\* of the optimizer exactly when the portfolio has a positive value and
\* the solution's cost is positive and does not exceed the funds (a
\* cost equal to the funds is accepted); in every other case they are
\* the initial floor/ceil-to-one-share quantities.
C24_SolutionAcceptedUpToFunds ==
    (cmd = "rebalance" /\ cmdPc = "done") =>
        rbOut = IF /\ Cost(rbIn.portfolio, rbIn.prices) > 0
                   /\ Cost(rbIn.solution, rbIn.prices) > 0
                   /\ Cost(rbIn.solution, rbIn.prices) <= rbIn.funds
                THEN rbIn.solution
                ELSE InitialShares(rbIn)

\* C28: a call Option recorded by write_calls has n contracts with
\* 1 <= n <= maximum_new_contracts and num_calls + n <= floor(num_shares / 100).
C28_CallsAgainstHeldLots ==
    \A i \in CallOptions :
        LET n == wheelOptions[i].num_contracts
        IN  /\ 1 <= n
            /\ n <= MaximumNewContracts(wheel)
            /\ wheel.num_calls + n <= wheel.num_shares \div Lot

\* C28 witness: a call Option is recorded for a Wheel holding more
\* uncovered lots than maximum_new_contracts allows in one run.
C28_Witness ==
    /\ runPc = "done"
    /\ CallOptions # {}
    /\ (wheel.num_shares \div Lot) - wheel.num_calls > MaximumNewContracts(wheel)

WasCachedPayload(o) ==
    LET fresh == {k \in DOMAIN opSeen[o] :
                    /\ k[1] = opSymbol[o]
                    /\ opSeen[o][k].present
                    /\ opAt[o] < opSeen[o][k].expires}
    IN  IF fresh = {} THEN 0 ELSE opSeen[o][CHOOSE k \in fresh : TRUE].value

\* C26: Client.options caches by symbol alone: a call for a symbol with
\* an unexpired cache entry makes no broker request and returns the
\* payload the filling call fetched, also when its own chain arguments
\* differ from those of the filling call; a call for a symbol without
\* one makes one request.
C26_OptionsKeyedBySymbol ==
    \A o \in OptionCallers :
        opPc[o] # "idle" =>
            IF WasCachedPayload(o) # 0
            THEN /\ opRequests[o] = 0
                 /\ opPc[o] = "done"
                 /\ opResult[o] = WasCachedPayload(o)
            ELSE opRequests[o] = 1

\* C26 witness: a call with put_finder's chain arguments was answered
\* from the cache with the payload fetched without chain arguments.
C26_Witness ==
    \E o \in OptionCallers :
        /\ opPc[o] = "done"
        /\ opRequests[o] = 0
        /\ opArgs[o] = 2
        /\ opResult[o] = 1

\* C23: no Wheel starts before the AccountSummary fetch and the
\* Positions load have completed, and a read of an AccountSummary field
\* made before the fetch completed raised instead of returning a value.
C23_AccountAndPositionsFirst ==
    /\ \A s \in Symbols :
          whPc[s] # "none" =>
              /\ whSaw[s].account = "fetched"
              /\ whSaw[s].positions
              /\ account = "fetched"
              /\ positionsLoaded
    /\ (acctRead.outcome # "none" /\ ~acctRead.fetched) =>
          acctRead.outcome = "RuntimeError"
    /\ acctRead.outcome = "value" => acctRead.fetched

\* C23 witness: target_buying_power was read before the fetch and
\* raised, and the Wheels of two tickers were started later.
C23_Witness ==
    /\ acctRead = [field |-> "target_buying_power", fetched |-> FALSE,
                   outcome |-> "RuntimeError"]
    /\ \A s \in Symbols : whPc[s] # "none"

\* C25: a Wheel whose ticker has a non-empty option chain and whose
\* broker calls all succeed completes the preload and ends returned,
\* with at least one status line and its done callback called exactly
\* once.
C25_WheelCompletesPreload ==
    \A s \in Symbols :
        (whPc[s] \in {"done", "failed"} /\ chainOf[s] = "some" /\ whError[s] # "HTTPError") =>
            /\ whPc[s] = "done"
            /\ whLines[s] >= 1
            /\ whDone[s] = 1

====
